---- MODULE Spec2Model ----
(***************************************************************************)
(* Model of the pet-health record-keeping API: ownership-based             *)
(* authorization, pet CRUD with soft delete, vaccination and subscription  *)
(* status derivation.  Dates are day numbers; timezone.now().date() is the *)
(* variable `today`.                                                       *)
(***************************************************************************)
EXTENDS Integers, FiniteSets, Sequences, TLC

(***************************************************************************)
(* Bounds                                                                  *)
(***************************************************************************)
MaxDay == 2
MaxPets == 2
MaxVacc == 1
MaxRecords == 1
MaxSubs == 1
PlanDuration == 1

(***************************************************************************)
(* Users and requesters                                                    *)
(***************************************************************************)
Users == {"u1", "u2", "admin"}

Anonymous == "anon"

Requesters == Users \cup {Anonymous}

\* A field missing from a request payload (a string field, a date field, a
\* primary-key field), and a null date
Absent == "absent"

AbsentDate == -2

AbsentPk == 0

NoDate == -1

Days == 0..MaxDay

VARIABLES
    today,          \* timezone.now().date()
    users,          \* table users: id -> row
    pets,           \* table pets: id -> row (soft-deleted rows included)
    vaccinations,   \* table vaccinations: id -> row
    health_records, \* table health_records: id -> row
    subscriptions,  \* table user_subscriptions: id -> row
    profiles,       \* table user_profiles: user -> row
    plans,          \* table subscription_plans: id -> row
    appointments,   \* table appointments: id -> row
    perm,           \* the last object-permission evaluation
    resp            \* the last request and its response

vars == <<today, users, pets, vaccinations, health_records, subscriptions, profiles, plans,
          appointments, perm, resp>>

\* The tables of the database
stored == <<users, pets, vaccinations, health_records, subscriptions, profiles, plans,
            appointments>>

\* User.role of the requester (accounts/models.py): ADMIN or USER
Role(u) == IF u \in DOMAIN users THEN users[u].role ELSE "USER"

\* request.user.is_authenticated: True for the row of an active user, False
\* for AnonymousUser; the credentials of a user with is_active False are
\* refused, so that requester arrives as anonymous
is_authenticated(u) == u \in DOMAIN users /\ users[u].is_active

(***************************************************************************)
(* apps/accounts/permissions.py                                            *)
(* hasattr(obj, f) is  f \in DOMAIN obj                                    *)
(***************************************************************************)
IsAdmin_has_permission(user) ==
    IF ~is_authenticated(user) THEN FALSE
    ELSE Role(user) = "ADMIN"

\* IsOwnerOrAdmin that never looks at obj.user
IsOwnerOrAdmin_owner_only(user, obj) ==
    IF ~is_authenticated(user) THEN FALSE
    ELSE IF Role(user) = "ADMIN" THEN TRUE
    ELSE IF "owner" \in DOMAIN obj THEN obj.owner = user
    ELSE FALSE

IsOwnerOrAdmin_has_object_permission(user, obj) ==
    IF ~is_authenticated(user) THEN FALSE
    ELSE IF Role(user) = "ADMIN" THEN TRUE
    ELSE IF "owner" \in DOMAIN obj THEN obj.owner = user
    ELSE IF "user" \in DOMAIN obj THEN obj.user = user
    ELSE IF "created_by" \in DOMAIN obj THEN obj.created_by = user
    ELSE FALSE

IsPetOwnerOrAdmin_has_object_permission(user, obj) ==
    IF ~is_authenticated(user) THEN FALSE
    ELSE IF Role(user) = "ADMIN" THEN TRUE
    ELSE IF "pet" \in DOMAIN obj THEN obj.pet.owner = user
    ELSE IF "owner" \in DOMAIN obj THEN obj.owner = user
    ELSE FALSE

IsSubscriptionOwnerOrAdmin_has_object_permission(user, obj) ==
    IF ~is_authenticated(user) THEN FALSE
    ELSE IF Role(user) = "ADMIN" THEN TRUE
    ELSE IF "user" \in DOMAIN obj THEN obj.user = user
    ELSE FALSE

IsAppointmentOwnerOrAdmin_has_object_permission(user, obj) ==
    IF ~is_authenticated(user) THEN FALSE
    ELSE IF Role(user) = "ADMIN" THEN TRUE
    ELSE IF "owner" \in DOMAIN obj THEN obj.owner = user
    ELSE IF "pet" \in DOMAIN obj THEN obj.pet.owner = user
    ELSE FALSE

\* IsUserSelfOrAdmin.has_object_permission; a user row is [id |-> ...]
IsUserSelfOrAdmin_has_object_permission(user, obj) ==
    IF ~is_authenticated(user) THEN FALSE
    ELSE IF Role(user) = "ADMIN" THEN TRUE
    ELSE IF "user" \in DOMAIN obj THEN obj.user = user
    ELSE "id" \in DOMAIN obj /\ obj.id = user

\* has_permission of a permission class (view-level check)
has_permission(cls, user) ==
    IF cls = "AllowAny" THEN TRUE
    ELSE IF cls = "IsAdmin" THEN IsAdmin_has_permission(user)
    ELSE is_authenticated(user)

\* has_object_permission of a permission class; rest_framework's
\* IsAuthenticated inherits BasePermission.has_object_permission, which
\* returns True for every object
has_object_permission(cls, user, obj) ==
    CASE cls = "IsOwnerOrAdmin" -> IsOwnerOrAdmin_has_object_permission(user, obj)
      [] cls = "IsPetOwnerOrAdmin" -> IsPetOwnerOrAdmin_has_object_permission(user, obj)
      [] cls = "IsAppointmentOwnerOrAdmin" -> IsAppointmentOwnerOrAdmin_has_object_permission(user, obj)
      [] cls = "IsSubscriptionOwnerOrAdmin" -> IsSubscriptionOwnerOrAdmin_has_object_permission(user, obj)
      [] cls = "IsUserSelfOrAdmin" -> IsUserSelfOrAdmin_has_object_permission(user, obj)
      [] cls = "IsAdmin" -> IsAdmin_has_permission(user)
      [] OTHER -> TRUE

\* The response of a request: what was asked, by whom, the HTTP status, the
\* primary key acted on, the ids of the rows returned, the status value
\* handed to a model save
Response(op, user, status, pk, data, given) ==
    [op |-> op, user |-> user, status |-> status, pk |-> pk, data |-> data,
     given |-> given]

NoResponse == Response("none", Anonymous, 0, 0, {}, "")

NoPerm == [cls |-> "none", user |-> Anonymous, obj |-> [id |-> 0], result |-> FALSE]

(***************************************************************************)
(* apps/pets                                                               *)
(***************************************************************************)
PetNames == {"Rex"}

\* A default manager that does not filter on is_deleted
Pet_objects_with_deleted == DOMAIN pets

\* PetManager.get_queryset: the default manager hides soft-deleted rows
Pet_objects == {p \in DOMAIN pets : ~pets[p].is_deleted}

\* Pet.all_objects / PetManager.all_with_deleted
Pet_all_objects == DOMAIN pets

\* PetManager.deleted_only
Pet_deleted_only == {p \in DOMAIN pets : pets[p].is_deleted}

\* get_queryset without the owner filter
PetViewSet_get_queryset_unfiltered(user) == Pet_objects

\* PetViewSet.get_queryset
PetViewSet_get_queryset(user) ==
    IF Role(user) = "ADMIN" THEN Pet_objects
    ELSE {p \in Pet_objects : pets[p].owner = user}

\* PetViewSet.get_permissions: one class for every action, the
\* permission_classes of the @action decorators are never consulted
PetViewSet_get_permissions == "IsOwnerOrAdmin"

\* PetSerializer.validate_name
PetSerializer_validate_name(value) == value # ""

\* PetSerializer.is_valid: owner is a writable, required primary-key field;
\* name is required; partial=True makes both optional
PetSerializer_is_valid(data, partial) ==
    /\ IF data.owner = Absent THEN partial ELSE data.owner \in Users
    /\ IF data.name = Absent THEN partial ELSE PetSerializer_validate_name(data.name)

\* A stored microchip_number that is NULL, and the texts a request may send
NoChip == "null"

ChipValues == {"a1", "A1", " a1 ", "b2", ""}

\* str.strip, over ChipValues and their upper case
str_strip(s) == CASE s = " a1 " -> "a1" [] s = " A1 " -> "A1" [] OTHER -> s

\* str.upper, over ChipValues and their trimmed texts
str_upper(s) ==
    CASE s = "a1" -> "A1" [] s = " a1 " -> " A1 " [] s = "b2" -> "B2" [] OTHER -> s

\* The microchip_number of a payload; the field is optional
microchip_number(data) ==
    IF "microchip_number" \in DOMAIN data THEN data.microchip_number ELSE Absent

\* CharField.run_validation (trim_whitespace) and the value that
\* PetSerializer.validate_microchip_number returns
PetSerializer_microchip_number_value(value) ==
    IF value = NoChip THEN NoChip
    ELSE LET trimmed == str_strip(value) IN
         IF trimmed # "" THEN str_upper(str_strip(trimmed)) ELSE trimmed

\* PetSerializer.validate_microchip_number: no other pet, deleted or not,
\* has the value; instance is the pk of the edited pet, AbsentPk on create
PetSerializer_validate_microchip_number(value, instance) ==
    LET v == PetSerializer_microchip_number_value(value) IN
    \/ v \in {NoChip, ""}
    \/ \A p \in Pet_all_objects \ {instance} : pets[p].microchip_number # v

\* Pet.clean
Pet_clean(row) ==
    IF row.microchip_number \notin {NoChip, ""}
    THEN [row EXCEPT !.microchip_number = str_upper(str_strip(@))]
    ELSE row

\* Model.validate_unique on microchip_number: the default manager is asked,
\* NULL is never looked up
Pet_validate_unique(pk, row) ==
    \/ row.microchip_number = NoChip
    \/ \A p \in Pet_objects \ {pk} : pets[p].microchip_number # row.microchip_number

\* unique=True on microchip_number: the constraint of the table, over every
\* row
Pet_unique_constraint(pk, row) ==
    \/ row.microchip_number = NoChip
    \/ \A p \in DOMAIN pets \ {pk} : pets[p].microchip_number # row.microchip_number

\* A save that checks nothing
Pet_save_unchecked(pk, row) == "ok"

\* Pet.save: full_clean (clean, then validate_unique), then the write
Pet_save(pk, row) ==
    IF ~Pet_validate_unique(pk, Pet_clean(row)) THEN "ValidationError"
    ELSE IF ~Pet_unique_constraint(pk, Pet_clean(row)) THEN "IntegrityError"
    ELSE "ok"

PetPayloads == [owner : Users \cup {Absent}, name : PetNames \cup {"", Absent}]

\* ModelSerializer.update: every validated field is written to the instance
PetSerializer_update(row, data) ==
    [row EXCEPT !.owner = IF data.owner = Absent THEN @ ELSE data.owner,
                !.name = IF data.name = Absent THEN @ ELSE data.name,
                !.microchip_number =
                    IF microchip_number(data) = Absent THEN @
                    ELSE PetSerializer_microchip_number_value(microchip_number(data))]

PetOnly == /\ UNCHANGED <<today, users, vaccinations, health_records, subscriptions, profiles, plans, appointments, perm>>

\* PetViewSet.create
PetCreate(user, data) ==
    /\ Cardinality(DOMAIN pets) < MaxPets
    /\ PetOnly
    /\ LET pk == Cardinality(DOMAIN pets) + 1
           new == [owner |-> user, name |-> data.name,
                   microchip_number |->
                       IF microchip_number(data) = Absent THEN NoChip
                       ELSE PetSerializer_microchip_number_value(microchip_number(data)),
                   is_deleted |-> FALSE, deleted_at |-> NoDate]
       IN
       IF ~has_permission(PetViewSet_get_permissions, user)
       THEN /\ resp' = Response("pet_create", user, 401, 0, {}, "")
            /\ UNCHANGED pets
       ELSE IF \/ ~PetSerializer_is_valid(data, FALSE)
               \/ /\ microchip_number(data) # Absent
                  /\ ~PetSerializer_validate_microchip_number(microchip_number(data), AbsentPk)
       THEN /\ resp' = Response("pet_create", user, 400, 0, {}, microchip_number(data))
            /\ UNCHANGED pets
       ELSE IF Pet_save(pk, new) # "ok"
       THEN /\ resp' = Response("pet_create", user, 400, 0, {}, microchip_number(data))
            /\ UNCHANGED pets
       ELSE /\ pets' = [p \in DOMAIN pets \cup {pk} |->
                          IF p = pk THEN Pet_clean(new) ELSE pets[p]]
            /\ resp' = Response("pet_create", user, 201, pk, {pk}, microchip_number(data))

\* PetViewSet.update (partial = FALSE) and PetViewSet.partial_update
PetWrite(op, user, pk, data, partial) ==
    /\ PetOnly
    /\ IF ~has_permission(PetViewSet_get_permissions, user)
       THEN /\ resp' = Response(op, user, 401, pk, {}, "")
            /\ UNCHANGED pets
       ELSE IF pk \notin PetViewSet_get_queryset(user)
       THEN /\ resp' = Response(op, user, 404, pk, {}, "")
            /\ UNCHANGED pets
       ELSE IF ~has_object_permission(PetViewSet_get_permissions, user, pets[pk])
       THEN /\ resp' = Response(op, user, 403, pk, {}, "")
            /\ UNCHANGED pets
       ELSE IF \/ ~PetSerializer_is_valid(data, partial)
               \/ /\ microchip_number(data) # Absent
                  /\ ~PetSerializer_validate_microchip_number(microchip_number(data), pk)
       THEN /\ resp' = Response(op, user, 400, pk, {}, microchip_number(data))
            /\ UNCHANGED pets
       ELSE IF Pet_save(pk, PetSerializer_update(pets[pk], data)) # "ok"
       THEN /\ resp' = Response(op, user, 400, pk, {}, microchip_number(data))
            /\ UNCHANGED pets
       ELSE /\ pets' = [pets EXCEPT ![pk] = Pet_clean(PetSerializer_update(@, data))]
            /\ resp' = Response(op, user, 200, pk, {pk}, microchip_number(data))

PetUpdate(user, pk, data) == PetWrite("pet_update", user, pk, data, FALSE)

PetPartialUpdate(user, pk, data) == PetWrite("pet_partial_update", user, pk, data, TRUE)

\* Pet.delete: soft delete
Pet_delete(row) == [row EXCEPT !.is_deleted = TRUE, !.deleted_at = today]

\* Pet.restore
Pet_restore(row) == [row EXCEPT !.is_deleted = FALSE, !.deleted_at = NoDate]

\* PetViewSet.destroy
PetDestroy(user, pk) ==
    /\ PetOnly
    /\ IF ~has_permission(PetViewSet_get_permissions, user)
       THEN /\ resp' = Response("pet_destroy", user, 401, pk, {}, "")
            /\ UNCHANGED pets
       ELSE IF pk \notin PetViewSet_get_queryset(user)
       THEN /\ resp' = Response("pet_destroy", user, 404, pk, {}, "")
            /\ UNCHANGED pets
       ELSE IF ~has_object_permission(PetViewSet_get_permissions, user, pets[pk])
       THEN /\ resp' = Response("pet_destroy", user, 403, pk, {}, "")
            /\ UNCHANGED pets
       ELSE IF Pet_save(pk, Pet_delete(pets[pk])) # "ok"
       THEN /\ resp' = Response("pet_destroy", user, 400, pk, {}, "")
            /\ UNCHANGED pets
       ELSE /\ pets' = [pets EXCEPT ![pk] = Pet_clean(Pet_delete(@))]
            /\ resp' = Response("pet_destroy", user, 200, pk, {}, "")

\* PetViewSet.restore
PetRestore(user, pk) ==
    /\ PetOnly
    /\ IF ~has_permission(PetViewSet_get_permissions, user)
       THEN /\ resp' = Response("pet_restore", user, 401, pk, {}, "")
            /\ UNCHANGED pets
       ELSE IF pk \notin Pet_all_objects
       THEN /\ resp' = Response("pet_restore", user, 404, pk, {}, "")
            /\ UNCHANGED pets
       ELSE IF ~pets[pk].is_deleted
       THEN /\ resp' = Response("pet_restore", user, 400, pk, {}, "")
            /\ UNCHANGED pets
       ELSE IF ~has_object_permission(PetViewSet_get_permissions, user, pets[pk])
       THEN /\ resp' = Response("pet_restore", user, 403, pk, {}, "")
            /\ UNCHANGED pets
       ELSE IF Pet_save(pk, Pet_restore(pets[pk])) # "ok"
       THEN /\ resp' = Response("pet_restore", user, 400, pk, {}, "")
            /\ UNCHANGED pets
       ELSE /\ pets' = [pets EXCEPT ![pk] = Pet_clean(Pet_restore(@))]
            /\ resp' = Response("pet_restore", user, 200, pk, {pk}, "")

\* PetViewSet.list: the rows of get_queryset
PetList(user) ==
    /\ PetOnly
    /\ UNCHANGED pets
    /\ IF ~has_permission(PetViewSet_get_permissions, user)
       THEN resp' = Response("pet_list", user, 401, 0, {}, "")
       ELSE resp' = Response("pet_list", user, 200, 0, PetViewSet_get_queryset(user), "")

\* PetViewSet.my_pets
PetMyPets(user) ==
    /\ PetOnly
    /\ UNCHANGED pets
    /\ IF ~has_permission(PetViewSet_get_permissions, user)
       THEN resp' = Response("my_pets", user, 401, 0, {}, "")
       ELSE resp' = Response("my_pets", user, 200, 0,
                             {p \in Pet_objects : pets[p].owner = user}, "")

\* PetViewSet.retrieve: get_object over get_queryset, then the object check
PetRetrieve(user, pk) ==
    /\ PetOnly
    /\ UNCHANGED pets
    /\ IF ~has_permission(PetViewSet_get_permissions, user)
       THEN resp' = Response("pet_retrieve", user, 401, pk, {}, "")
       ELSE IF pk \notin PetViewSet_get_queryset(user)
       THEN resp' = Response("pet_retrieve", user, 404, pk, {}, "")
       ELSE IF ~has_object_permission(PetViewSet_get_permissions, user, pets[pk])
       THEN resp' = Response("pet_retrieve", user, 403, pk, {}, "")
       ELSE resp' = Response("pet_retrieve", user, 200, pk, {pk}, "")

\* PetAdmin.get_queryset: ModelAdmin reads the default manager (Pet.objects)
PetAdmin_get_queryset == Pet_objects

\* The fields the PetAdmin change form submits: the Status fieldset shows
\* is_deleted as a checkbox; deleted_at is read-only, and so is owner when
\* a pet is edited
PetAdminForms == [name : PetNames, is_deleted : BOOLEAN]

\* The microchip_number a form field hands to the model: forms.CharField
\* strips the text and turns the empty text into None
PetAdminForm_microchip_number(value) ==
    IF value = NoChip \/ str_strip(value) = "" THEN NoChip ELSE str_strip(value)

\* PetAdmin change form: the form is checked with full_clean and
\* validate_unique, then the edited pet is saved with Pet.save()
PetAdminChange(pk, form) ==
    /\ pk \in PetAdmin_get_queryset
    /\ PetOnly
    /\ LET new == [pets[pk] EXCEPT
                      !.name = form.name,
                      !.is_deleted = form.is_deleted,
                      !.microchip_number =
                          IF microchip_number(form) = Absent THEN @
                          ELSE PetAdminForm_microchip_number(microchip_number(form))]
       IN
       IF ~Pet_validate_unique(pk, Pet_clean(new))
       THEN /\ resp' = Response("pet_admin_change", "admin", 400, pk, {}, microchip_number(form))
            /\ UNCHANGED pets
       ELSE IF Pet_save(pk, new) # "ok"
       THEN /\ resp' = Response("pet_admin_change", "admin", 500, pk, {}, microchip_number(form))
            /\ UNCHANGED pets
       ELSE /\ pets' = [pets EXCEPT ![pk] = Pet_clean(new)]
            /\ resp' = Response("pet_admin_change", "admin", 200, pk, {}, microchip_number(form))

\* PetAdmin.delete_model / delete_queryset: Pet.delete() on a pet that is
\* not deleted yet
PetAdminDelete(pk) ==
    /\ pk \in PetAdmin_get_queryset
    /\ PetOnly
    /\ pets' = [pets EXCEPT ![pk] = IF ~@.is_deleted THEN Pet_delete(@) ELSE @]
    /\ resp' = Response("pet_admin_delete", "admin", 200, pk, {}, "")

\* PetAdmin.restore_pets: Pet.restore() on the selected pets that are deleted
PetAdminRestore(selected) ==
    /\ selected \subseteq PetAdmin_get_queryset
    /\ PetOnly
    /\ pets' = [p \in DOMAIN pets |->
                  IF p \in selected /\ pets[p].is_deleted THEN Pet_restore(pets[p])
                  ELSE pets[p]]
    /\ resp' = Response("pet_admin_restore", "admin", 200, 0, selected, "")

(***************************************************************************)
(* apps/health: vaccinations                                               *)
(***************************************************************************)
VaccStatuses == {"pending", "completed", "overdue", "scheduled"}

\* The serializer was built without an instance (a create)
NoInstance == [none |-> TRUE]

\* Python's  attrs.get(f) or b  for a date: an absent or null date is falsy
DateOr(a, b) == IF a \in {AbsentDate, NoDate} THEN b ELSE a

\* Python's  attrs.get(f) or b  for a string
StrOr(a, b) == IF a \in {Absent, ""} THEN b ELSE a

\* VaccinationViewSet.permission_classes: no get_permissions override, so
\* check_permissions and check_object_permissions consult this class
VaccinationViewSet_permission_classes == "IsAuthenticated"

\* get_queryset without the pet__owner filter
VaccinationViewSet_get_queryset_unfiltered(user) == DOMAIN vaccinations

\* VaccinationViewSet.get_queryset
VaccinationViewSet_get_queryset(user) ==
    IF Role(user) = "ADMIN" THEN DOMAIN vaccinations
    ELSE {v \in DOMAIN vaccinations : pets[vaccinations[v].pet].owner = user}

\* A vaccination as check_object_permissions sees it: it has a pet attribute
\* and neither owner nor user
VaccinationObj(row) == [pet |-> pets[row.pet], status |-> row.status]

\* validate_due_date that accepts every date
VaccinationSerializer_validate_due_date_any(value, instance) == TRUE

\* VaccinationSerializer.validate_due_date
VaccinationSerializer_validate_due_date(value, instance) ==
    ~(instance = NoInstance /\ value < today)

\* VaccinationSerializer.validate
VaccinationSerializer_validate(attrs, instance) ==
    LET administered_date == DateOr(attrs.administered_date,
                                IF instance # NoInstance THEN instance.administered_date ELSE NoDate)
        due_date == DateOr(attrs.due_date,
                                IF instance # NoInstance THEN instance.due_date ELSE NoDate)
        status == StrOr(attrs.status,
                                IF instance # NoInstance THEN instance.status ELSE "pending")
    IN /\ administered_date # NoDate =>
             /\ ~(administered_date > today)
             /\ ~(due_date # NoDate /\ administered_date < due_date)
       /\ ~(status = "completed" /\ administered_date = NoDate)

\* VaccinationSerializer.is_valid: pet is a primary key of Pet.objects, pet
\* and due_date are required unless partial, status is one of the choices
VaccinationSerializer_is_valid(data, instance, partial) ==
    /\ IF data.pet = AbsentPk THEN partial ELSE data.pet \in Pet_objects
    /\ IF data.due_date = AbsentDate THEN partial
       ELSE VaccinationSerializer_validate_due_date(data.due_date, instance)
    /\ data.status \in VaccStatuses \cup {Absent}
    /\ VaccinationSerializer_validate(data, instance)

\* Vaccination.clean
Vaccination_clean(row) ==
    /\ ~(row.administered_date # NoDate /\ row.due_date # NoDate
            /\ row.administered_date > today)
    /\ ~(row.status = "completed" /\ row.administered_date = NoDate)

\* save() that marks only pending vaccinations overdue
Vaccination_save_status_pending_only(row) ==
    IF row.administered_date # NoDate THEN "completed"
    ELSE IF row.due_date < today /\ row.status = "pending" THEN "overdue"
    ELSE IF row.due_date >= today /\ row.status = "overdue" THEN "pending"
    ELSE row.status

\* save() that leaves a scheduled vaccination scheduled after its due date
Vaccination_save_status_keep_scheduled(row) ==
    IF row.administered_date # NoDate THEN "completed"
    ELSE IF row.due_date < today /\ row.status \notin {"completed", "scheduled"}
         THEN "overdue"
    ELSE IF row.due_date >= today /\ row.status = "overdue" THEN "pending"
    ELSE row.status

\* save() that completes a vaccination only when it was not overdue
Vaccination_save_status_keep_overdue(row) ==
    IF row.administered_date # NoDate /\ row.status # "overdue" THEN "completed"
    ELSE IF row.administered_date # NoDate THEN row.status
    ELSE IF row.due_date < today /\ row.status # "completed" THEN "overdue"
    ELSE IF row.due_date >= today /\ row.status = "overdue" THEN "pending"
    ELSE row.status

\* save() that resets every vaccination not yet due to pending
Vaccination_save_status_reset_not_due(row) ==
    IF row.administered_date # NoDate THEN "completed"
    ELSE IF row.due_date < today /\ row.status # "completed" THEN "overdue"
    ELSE IF row.due_date >= today /\ row.status \in {"overdue", "scheduled"} THEN "pending"
    ELSE row.status

\* Vaccination.save, after full_clean: the stored status
Vaccination_save_status(row) ==
    LET s1 == IF row.due_date # NoDate /\ row.administered_date = NoDate
              THEN IF row.due_date < today /\ row.status # "completed" THEN "overdue"
                   ELSE IF row.due_date >= today /\ row.status = "overdue" THEN "pending"
                   ELSE row.status
              ELSE row.status
    IN IF row.administered_date # NoDate THEN "completed" ELSE s1

\* Vaccination.save: the row written (updated_at is auto_now)
Vaccination_save(row) ==
    [row EXCEPT !.status = Vaccination_save_status(row), !.updated_at = today]

\* ModelSerializer.create / update: the instance the payload produces
VaccinationSerializer_instance(data, instance) ==
    IF instance = NoInstance
    THEN [pet |-> data.pet, due_date |-> data.due_date,
          status |-> IF data.status = Absent THEN "pending" ELSE data.status,
          administered_date |-> IF data.administered_date = AbsentDate THEN NoDate
                                ELSE data.administered_date,
          updated_at |-> today]
    ELSE [instance EXCEPT
            !.pet = IF data.pet = AbsentPk THEN @ ELSE data.pet,
            !.due_date = IF data.due_date = AbsentDate THEN @ ELSE data.due_date,
            !.status = IF data.status = Absent THEN @ ELSE data.status,
            !.administered_date = IF data.administered_date = AbsentDate THEN @
                                  ELSE data.administered_date]

VaccPayloads == [pet : (1..MaxPets) \cup {AbsentPk}, due_date : Days \cup {AbsentDate},
                 status : VaccStatuses \cup {Absent},
                 administered_date : Days \cup {NoDate, AbsentDate}]

VaccOnly == UNCHANGED <<today, users, pets, health_records, subscriptions, profiles, plans, appointments, perm>>

\* The table after row is stored under pk
Stored(table, pk, row) ==
    [k \in DOMAIN table \cup {pk} |-> IF k = pk THEN row ELSE table[k]]

\* VaccinationViewSet.create
VaccinationCreate(user, data) ==
    /\ Cardinality(DOMAIN vaccinations) < MaxVacc
    /\ VaccOnly
    /\ LET pk == Cardinality(DOMAIN vaccinations) + 1
           new == VaccinationSerializer_instance(data, NoInstance)
           given == IF data.status = Absent THEN "pending" ELSE data.status
       IN
       IF ~has_permission(VaccinationViewSet_permission_classes, user)
       THEN /\ resp' = Response("vacc_create", user, 401, 0, {}, "")
            /\ UNCHANGED vaccinations
       ELSE IF ~VaccinationSerializer_is_valid(data, NoInstance, FALSE)
       THEN /\ resp' = Response("vacc_create", user, 400, 0, {}, "")
            /\ UNCHANGED vaccinations
       ELSE IF ~has_object_permission(VaccinationViewSet_permission_classes, user, pets[data.pet])
       THEN /\ resp' = Response("vacc_create", user, 403, 0, {}, "")
            /\ UNCHANGED vaccinations
       ELSE IF ~Vaccination_clean(new)
       THEN /\ resp' = Response("vacc_create", user, 400, 0, {}, "")
            /\ UNCHANGED vaccinations
       ELSE /\ vaccinations' = Stored(vaccinations, pk, Vaccination_save(new))
            /\ resp' = Response("vacc_create", user, 201, pk, {}, given)

\* VaccinationViewSet.update (partial = FALSE) and partial_update: update
\* checks the payload's pet or else the current one, partial_update checks
\* the pet only when the payload names one
VaccinationWrite(op, user, pk, data, partial) ==
    /\ VaccOnly
    /\ IF ~has_permission(VaccinationViewSet_permission_classes, user)
       THEN /\ resp' = Response(op, user, 401, pk, {}, "")
            /\ UNCHANGED vaccinations
       ELSE IF pk \notin VaccinationViewSet_get_queryset(user)
       THEN /\ resp' = Response(op, user, 404, pk, {}, "")
            /\ UNCHANGED vaccinations
       ELSE LET instance == vaccinations[pk]
                new == VaccinationSerializer_instance(data, instance)
            IN
       IF ~has_object_permission(VaccinationViewSet_permission_classes, user,
                                 VaccinationObj(instance))
       THEN /\ resp' = Response(op, user, 403, pk, {}, "")
            /\ UNCHANGED vaccinations
       ELSE IF ~VaccinationSerializer_is_valid(data, instance, partial)
       THEN /\ resp' = Response(op, user, 400, pk, {}, "")
            /\ UNCHANGED vaccinations
       ELSE IF /\ (~partial \/ data.pet # AbsentPk)
               /\ ~has_object_permission(VaccinationViewSet_permission_classes, user,
                                         pets[new.pet])
       THEN /\ resp' = Response(op, user, 403, pk, {}, "")
            /\ UNCHANGED vaccinations
       ELSE IF ~Vaccination_clean(new)
       THEN /\ resp' = Response(op, user, 400, pk, {}, "")
            /\ UNCHANGED vaccinations
       ELSE /\ vaccinations' = [vaccinations EXCEPT ![pk] = Vaccination_save(new)]
            /\ resp' = Response(op, user, 200, pk, {}, new.status)

VaccinationUpdate(user, pk, data) == VaccinationWrite("vacc_update", user, pk, data, FALSE)

VaccinationPartialUpdate(user, pk, data) ==
    VaccinationWrite("vacc_partial_update", user, pk, data, TRUE)

\* VaccinationAdmin add form: the admin site builds the instance from the
\* form and calls Vaccination.save() (no serializer in between)
VaccinationAdminAdd(row) ==
    /\ Cardinality(DOMAIN vaccinations) < MaxVacc
    /\ row.pet \in Pet_objects
    /\ VaccOnly
    /\ LET pk == Cardinality(DOMAIN vaccinations) + 1 IN
       IF ~Vaccination_clean(row)
       THEN /\ resp' = Response("vacc_admin_add", "admin", 400, 0, {}, row.status)
            /\ UNCHANGED vaccinations
       ELSE /\ vaccinations' = Stored(vaccinations, pk, Vaccination_save(row))
            /\ resp' = Response("vacc_admin_add", "admin", 200, pk, {}, row.status)

\* VaccinationAdmin change form: the edited instance is saved
VaccinationAdminChange(pk, row) ==
    /\ pk \in DOMAIN vaccinations
    /\ row.pet \in Pet_objects
    /\ VaccOnly
    /\ IF ~Vaccination_clean(row)
       THEN /\ resp' = Response("vacc_admin_change", "admin", 400, pk, {}, row.status)
            /\ UNCHANGED vaccinations
       ELSE /\ vaccinations' = [vaccinations EXCEPT ![pk] = Vaccination_save(row)]
            /\ resp' = Response("vacc_admin_change", "admin", 200, pk, {}, row.status)

VaccRows == [pet : 1..MaxPets, due_date : Days, status : VaccStatuses,
             administered_date : Days \cup {NoDate}, updated_at : {NoDate}]

(***************************************************************************)
(* apps/health: health records                                             *)
(***************************************************************************)
\* HealthRecordViewSet.permission_classes, used by the standard actions
HealthRecordViewSet_permission_classes == "IsPetOwnerOrAdmin"

\* @action(..., permission_classes=[IsAuthenticated]) on pet_records: the
\* router passes the decorator's keyword arguments to the view, where they
\* replace the class attribute for this action
HealthRecordViewSet_pet_records_permission_classes == "IsAuthenticated"

\* HealthRecordSerializer.is_valid: pet in Pet.objects, validate_record_date
HealthRecordSerializer_is_valid(data) ==
    /\ data.pet \in Pet_objects
    /\ ~(data.record_date > today)

HealthOnly == UNCHANGED <<today, users, pets, vaccinations, subscriptions, profiles, plans, appointments, perm>>

\* HealthRecordViewSet.create
HealthRecordCreate(user, data) ==
    /\ Cardinality(DOMAIN health_records) < MaxRecords
    /\ HealthOnly
    /\ LET pk == Cardinality(DOMAIN health_records) + 1 IN
       IF ~has_permission(HealthRecordViewSet_permission_classes, user)
       THEN /\ resp' = Response("record_create", user, 401, 0, {}, "")
            /\ UNCHANGED health_records
       ELSE IF ~HealthRecordSerializer_is_valid(data)
       THEN /\ resp' = Response("record_create", user, 400, 0, {}, "")
            /\ UNCHANGED health_records
       ELSE IF ~has_object_permission(HealthRecordViewSet_permission_classes, user,
                                      pets[data.pet])
       THEN /\ resp' = Response("record_create", user, 403, 0, {}, "")
            /\ UNCHANGED health_records
       ELSE /\ health_records' = Stored(health_records, pk,
                                        [pet |-> data.pet, record_date |-> data.record_date])
            /\ resp' = Response("record_create", user, 201, pk, {}, "")

\* HealthRecordViewSet.pet_records
PetRecords(user, pk) ==
    /\ HealthOnly
    /\ UNCHANGED health_records
    /\ IF ~has_permission(HealthRecordViewSet_pet_records_permission_classes, user)
       THEN resp' = Response("pet_records", user, 401, pk, {}, "")
       ELSE IF pk \notin Pet_objects
       THEN resp' = Response("pet_records", user, 404, pk, {}, "")
       ELSE IF ~has_object_permission(HealthRecordViewSet_pet_records_permission_classes,
                                      user, pets[pk])
       THEN resp' = Response("pet_records", user, 403, pk, {}, "")
       ELSE resp' = Response("pet_records", user, 200, pk,
                             {h \in DOMAIN health_records : health_records[h].pet = pk}, "")

(***************************************************************************)
(* apps/subscriptions: user subscriptions                                  *)
(***************************************************************************)
SubStatuses == {"active", "expired", "cancelled"}

\* The plan catalogue: one plan, SubscriptionPlan.duration_days
Plans == {"premium"}

duration_days(plan) == PlanDuration

\* A boolean field of a payload: "true", "false" or absent
PayloadBools == {"true", "false", Absent}

\* get_permissions that leaves cancel to the owner check
UserSubscriptionViewSet_get_permissions_cancel_open(action) ==
    IF action \in {"create", "update", "partial_update", "destroy"} THEN "IsAdmin"
    ELSE "IsSubscriptionOwnerOrAdmin"

\* UserSubscriptionViewSet.get_permissions
UserSubscriptionViewSet_get_permissions(action) ==
    IF action \in {"create", "update", "partial_update", "destroy", "cancel"}
    THEN "IsAdmin"
    ELSE "IsSubscriptionOwnerOrAdmin"

\* UserSubscriptionViewSet.get_queryset
UserSubscriptionViewSet_get_queryset(user) ==
    IF Role(user) = "ADMIN" THEN DOMAIN subscriptions
    ELSE {k \in DOMAIN subscriptions : subscriptions[k].user = user}

\* APIView.permission_denied: 401 without credentials, 403 with
DeniedStatus(user) == IF is_authenticated(user) THEN 403 ELSE 401

\* clean() without the start-date check
UserSubscription_clean_any_start(row) ==
    (row.start_date # NoDate /\ row.end_date # NoDate) =>
        ~(row.end_date <= row.start_date)

\* clean() without the end-date check
UserSubscription_clean_any_end(row) ==
    (row.start_date # NoDate /\ row.end_date # NoDate) => ~(row.start_date > today)

\* UserSubscription.clean
UserSubscription_clean(row) ==
    (row.start_date # NoDate /\ row.end_date # NoDate) =>
        /\ ~(row.end_date <= row.start_date)
        /\ ~(row.start_date > today)

\* UserSubscription.save, after full_clean: status, is_active and
\* cancelled_at are derived from the dates; updated_at is auto_now
UserSubscription_save(row) ==
    LET dated == row.start_date # NoDate /\ row.end_date # NoDate
        derive == dated /\ row.status # "cancelled"
        status == IF ~derive THEN row.status
                  ELSE IF today < row.start_date THEN "active"
                  ELSE IF today >= row.start_date /\ today <= row.end_date THEN "active"
                  ELSE "expired"
        active == IF ~derive THEN row.is_active
                  ELSE IF today < row.start_date THEN FALSE
                  ELSE IF today >= row.start_date /\ today <= row.end_date THEN TRUE
                  ELSE FALSE
    IN [row EXCEPT
          !.status = status,
          !.is_active = IF status = "cancelled" THEN FALSE ELSE active,
          !.cancelled_at = IF status = "cancelled" /\ row.cancelled_at = NoDate
                           THEN today ELSE @,
          !.updated_at = today]

\* UserSubscription.cancel, before its save()
UserSubscription_cancel(row) ==
    [row EXCEPT !.status = "cancelled", !.is_active = FALSE, !.cancelled_at = today]

\* UserSubscription.is_currently_active
UserSubscription_is_currently_active(row) ==
    IF row.status = "cancelled" THEN FALSE
    ELSE row.start_date <= today /\ today <= row.end_date

\* UserSubscriptionSerializer.validate_start_date
UserSubscriptionSerializer_validate_start_date(value) == ~(value > today)

\* UserSubscriptionSerializer.validate_end_date compares the parsed end date
\* with self.initial_data.get('start_date'), the raw text of the payload: a
\* date compared with a str raises TypeError.  With no start_date in the
\* payload the instance's date is used.  "TypeError", "invalid" or "ok".
UserSubscriptionSerializer_validate_end_date(value, data, instance) ==
    IF data.start_date # AbsentDate THEN "TypeError"
    ELSE IF instance # NoInstance /\ value <= instance.start_date THEN "invalid"
    ELSE "ok"

\* UserSubscriptionSerializer.validate
UserSubscriptionSerializer_validate(attrs, instance) ==
    LET start_date == DateOr(attrs.start_date,
                        IF instance # NoInstance THEN instance.start_date ELSE NoDate)
        end_date == DateOr(attrs.end_date,
                        IF instance # NoInstance THEN instance.end_date ELSE NoDate)
    IN ~(start_date # NoDate /\ end_date # NoDate /\ end_date <= start_date)

\* The fields of the payload pass their own validators: user, plan,
\* start_date and end_date are required unless partial (the model gives
\* them no default), status and is_active are optional
UserSubscriptionSerializer_fields_valid(data, instance, partial) ==
    /\ IF data.user = Absent THEN partial ELSE data.user \in Users
    /\ IF data.plan = Absent THEN partial ELSE data.plan \in Plans
    /\ IF data.start_date = AbsentDate THEN partial
       ELSE UserSubscriptionSerializer_validate_start_date(data.start_date)
    /\ IF data.end_date = AbsentDate THEN partial
       ELSE UserSubscriptionSerializer_validate_end_date(data.end_date, data, instance) = "ok"
    /\ data.status \in SubStatuses \cup {Absent}

\* Serializer.is_valid(raise_exception=True): 500 when a validator raised
\* TypeError, 400 on a validation error, 200 when the payload is valid
UserSubscriptionSerializer_is_valid(data, instance, partial) ==
    IF /\ data.end_date # AbsentDate
       /\ UserSubscriptionSerializer_validate_end_date(data.end_date, data, instance) = "TypeError"
    THEN 500
    ELSE IF ~UserSubscriptionSerializer_fields_valid(data, instance, partial) THEN 400
    ELSE IF ~UserSubscriptionSerializer_validate(data, instance) THEN 400
    ELSE 200

\* ModelSerializer.create / update with the view's end_date default
UserSubscriptionSerializer_instance(data, instance, end_default) ==
    LET base == IF instance = NoInstance
                THEN [user |-> data.user, plan |-> data.plan, start_date |-> NoDate,
                      end_date |-> NoDate, status |-> "active", is_active |-> TRUE,
                      cancelled_at |-> NoDate, updated_at |-> today]
                ELSE instance
    IN [base EXCEPT
          !.user = IF data.user = Absent THEN @ ELSE data.user,
          !.plan = IF data.plan = Absent THEN @ ELSE data.plan,
          !.start_date = IF data.start_date = AbsentDate THEN @ ELSE data.start_date,
          !.end_date = IF data.end_date # AbsentDate THEN data.end_date
                       ELSE IF end_default # NoDate THEN end_default ELSE @,
          !.status = IF data.status = Absent THEN @ ELSE data.status,
          !.is_active = IF data.is_active = Absent THEN @ ELSE data.is_active = "true"]

SubPayloads == [user : Users \cup {Absent}, plan : Plans \cup {Absent},
                start_date : Days \cup {AbsentDate}, end_date : Days \cup {AbsentDate},
                status : SubStatuses \cup {Absent}, is_active : PayloadBools]

SubOnly == UNCHANGED <<today, users, pets, vaccinations, health_records, profiles, plans, appointments, perm>>

\* UserSubscriptionViewSet.create: the view fills in end_date = start_date +
\* plan.duration_days when the validated payload has none
SubscriptionCreate(user, data) ==
    /\ Cardinality(DOMAIN subscriptions) < MaxSubs
    /\ SubOnly
    /\ LET pk == Cardinality(DOMAIN subscriptions) + 1
           valid == UserSubscriptionSerializer_is_valid(data, NoInstance, FALSE)
           start_date == IF data.start_date = AbsentDate THEN today ELSE data.start_date
           end_default == IF data.end_date = AbsentDate
                          THEN start_date + duration_days(data.plan) ELSE NoDate
           new == UserSubscriptionSerializer_instance(data, NoInstance, end_default)
       IN
       IF ~has_permission(UserSubscriptionViewSet_get_permissions("create"), user)
       THEN /\ resp' = Response("sub_create", user, DeniedStatus(user), 0, {}, "")
            /\ UNCHANGED subscriptions
       ELSE IF valid # 200
       THEN /\ resp' = Response("sub_create", user, valid, 0, {}, "")
            /\ UNCHANGED subscriptions
       ELSE IF ~UserSubscription_clean(new)
       THEN /\ resp' = Response("sub_create", user, 400, 0, {}, "")
            /\ UNCHANGED subscriptions
       ELSE /\ subscriptions' = Stored(subscriptions, pk, UserSubscription_save(new))
            /\ resp' = Response("sub_create", user, 201, pk, {}, new.status)

\* UserSubscriptionViewSet.update (partial = FALSE) and partial_update: the
\* view fills in end_date = start_date + plan.duration_days when the payload
\* has none (partial_update: and names a start_date)
SubscriptionWrite(op, action, user, pk, data, partial) ==
    /\ SubOnly
    /\ IF ~has_permission(UserSubscriptionViewSet_get_permissions(action), user)
       THEN /\ resp' = Response(op, user, DeniedStatus(user), pk, {}, "")
            /\ UNCHANGED subscriptions
       ELSE IF pk \notin UserSubscriptionViewSet_get_queryset(user)
       THEN /\ resp' = Response(op, user, 404, pk, {}, "")
            /\ UNCHANGED subscriptions
       ELSE LET instance == subscriptions[pk]
                valid == UserSubscriptionSerializer_is_valid(data, instance, partial)
                plan == IF data.plan = Absent THEN instance.plan ELSE data.plan
                start_date == IF data.start_date = AbsentDate THEN instance.start_date
                              ELSE data.start_date
                end_default == IF /\ data.end_date = AbsentDate
                                  /\ (~partial \/ data.start_date # AbsentDate)
                               THEN start_date + duration_days(plan)
                               ELSE NoDate
                new == UserSubscriptionSerializer_instance(data, instance, end_default)
            IN
       IF valid # 200
       THEN /\ resp' = Response(op, user, valid, pk, {}, "")
            /\ UNCHANGED subscriptions
       ELSE IF ~UserSubscription_clean(new)
       THEN /\ resp' = Response(op, user, 400, pk, {}, "")
            /\ UNCHANGED subscriptions
       ELSE /\ subscriptions' = [subscriptions EXCEPT ![pk] = UserSubscription_save(new)]
            /\ resp' = Response(op, user, 200, pk, {}, new.status)

SubscriptionUpdate(user, pk, data) ==
    SubscriptionWrite("sub_update", "update", user, pk, data, FALSE)

SubscriptionPartialUpdate(user, pk, data) ==
    SubscriptionWrite("sub_partial_update", "partial_update", user, pk, data, TRUE)

\* UserSubscriptionViewSet.cancel
SubscriptionCancel(user, pk) ==
    /\ SubOnly
    /\ IF ~has_permission(UserSubscriptionViewSet_get_permissions("cancel"), user)
       THEN /\ resp' = Response("sub_cancel", user, DeniedStatus(user), pk, {}, "")
            /\ UNCHANGED subscriptions
       ELSE IF pk \notin UserSubscriptionViewSet_get_queryset(user)
       THEN /\ resp' = Response("sub_cancel", user, 404, pk, {}, "")
            /\ UNCHANGED subscriptions
       ELSE IF subscriptions[pk].status = "cancelled"
       THEN /\ resp' = Response("sub_cancel", user, 400, pk, {}, "")
            /\ UNCHANGED subscriptions
       ELSE IF ~UserSubscription_clean(UserSubscription_cancel(subscriptions[pk]))
       THEN /\ resp' = Response("sub_cancel", user, 400, pk, {}, "")
            /\ UNCHANGED subscriptions
       ELSE /\ subscriptions' = [subscriptions EXCEPT
                                   ![pk] = UserSubscription_save(UserSubscription_cancel(@))]
            /\ resp' = Response("sub_cancel", user, 200, pk, {}, "cancelled")

SubRows == [user : {"u1"}, plan : Plans, start_date : Days, end_date : Days,
            status : SubStatuses, is_active : BOOLEAN, cancelled_at : {NoDate},
            updated_at : {NoDate}]

\* UserSubscriptionAdmin add form: the instance is built from the form and
\* saved with UserSubscription.save()
SubscriptionAdminAdd(row) ==
    /\ Cardinality(DOMAIN subscriptions) < MaxSubs
    /\ SubOnly
    /\ LET pk == Cardinality(DOMAIN subscriptions) + 1 IN
       IF ~UserSubscription_clean(row)
       THEN /\ resp' = Response("sub_admin_add", "admin", 400, 0, {}, row.status)
            /\ UNCHANGED subscriptions
       ELSE /\ subscriptions' = Stored(subscriptions, pk, UserSubscription_save(row))
            /\ resp' = Response("sub_admin_add", "admin", 200, pk, {}, row.status)

\* UserSubscriptionAdmin change form: cancelled_at is read-only, the other
\* fields come from the form
SubscriptionAdminChange(pk, row) ==
    /\ pk \in DOMAIN subscriptions
    /\ SubOnly
    /\ LET new == [row EXCEPT !.cancelled_at = subscriptions[pk].cancelled_at] IN
       IF ~UserSubscription_clean(new)
       THEN /\ resp' = Response("sub_admin_change", "admin", 400, pk, {}, row.status)
            /\ UNCHANGED subscriptions
       ELSE /\ subscriptions' = [subscriptions EXCEPT ![pk] = UserSubscription_save(new)]
            /\ resp' = Response("sub_admin_change", "admin", 200, pk, {}, row.status)

\* UserSubscriptionAdmin.cancel_subscriptions on the selected rows
SubscriptionAdminCancel(selected) ==
    /\ selected \subseteq DOMAIN subscriptions
    /\ selected # {}
    /\ SubOnly
    /\ subscriptions' =
          [k \in DOMAIN subscriptions |->
              IF k \in selected /\ subscriptions[k].status # "cancelled"
              THEN UserSubscription_save(UserSubscription_cancel(subscriptions[k]))
              ELSE subscriptions[k]]
    /\ resp' = Response("sub_admin_cancel", "admin", 200, 0, selected, "")

\* UserSubscriptionAdmin.activate_subscriptions: queryset.update writes the
\* two columns without calling save()
UserSubscriptionAdmin_activate(row) ==
    [row EXCEPT !.status = "active", !.is_active = TRUE]

SubscriptionAdminActivate(selected) ==
    /\ selected \subseteq DOMAIN subscriptions
    /\ selected # {}
    /\ SubOnly
    /\ subscriptions' =
          [k \in DOMAIN subscriptions |->
              IF k \in selected THEN UserSubscriptionAdmin_activate(subscriptions[k])
              ELSE subscriptions[k]]
    /\ resp' = Response("sub_admin_activate", "admin", 200, 0, selected, "")

(***************************************************************************)
(* apps/accounts: registration and account deletion                        *)
(***************************************************************************)
RoleChoices == {"ADMIN", "USER"}

\* Email addresses a registration may name: one that is free and one that
\* belongs to an existing account
RegEmails == {"n1", "u1"}

\* Registration payloads: the role may be missing, a valid choice or not a
\* choice at all; password_confirm repeats the password or does not
RegPayloads == [email : RegEmails, role : RoleChoices \cup {Absent, "OWNER"},
                password_confirm : {"same", "different"}]

\* The response of an accounts request: target is the user row acted on,
\* given the payload of a registration
UserResponse(op, user, status, target, given) ==
    [op |-> op, user |-> user, status |-> status, pk |-> 0, data |-> {},
     given |-> given, target |-> target]

AccountsOnly ==
    UNCHANGED <<today, pets, vaccinations, health_records, subscriptions, profiles, plans, appointments, perm>>

\* User.save, after full_clean: a superuser is given role ADMIN
User_save(row) == IF row.is_superuser THEN [row EXCEPT !.role = "ADMIN"] ELSE row

\* get_permissions that lets every authenticated user reach destroy
UserViewSet_get_permissions_destroy_open(action) ==
    IF action = "create" THEN "AllowAny"
    ELSE IF action = "list" THEN "IsAdmin"
    ELSE IF action \in {"update", "partial_update", "retrieve"} THEN "IsUserSelfOrAdmin"
    ELSE "IsAuthenticated"

\* UserViewSet.get_permissions
UserViewSet_get_permissions(action) ==
    IF action = "create" THEN "AllowAny"
    ELSE IF action \in {"list", "destroy"} THEN "IsAdmin"
    ELSE IF action \in {"update", "partial_update", "retrieve"} THEN "IsUserSelfOrAdmin"
    ELSE "IsAuthenticated"

\* UserRegistrationSerializer.validate_email
UserRegistrationSerializer_validate_email(value) == value \notin DOMAIN users

\* validate() that checks the passwords only
UserRegistrationSerializer_validate_any_role(attrs) ==
    attrs.password_confirm = "same"

\* UserRegistrationSerializer.validate
UserRegistrationSerializer_validate(attrs) ==
    LET role == IF attrs.role = Absent THEN "USER" ELSE attrs.role IN
    IF attrs.password_confirm # "same" THEN FALSE
    ELSE IF role = "ADMIN" THEN FALSE
    ELSE TRUE

\* UserRegistrationSerializer.is_valid: the field validators (email unique,
\* role one of the choices when given), then validate()
UserRegistrationSerializer_is_valid(data) ==
    /\ UserRegistrationSerializer_validate_email(data.email)
    /\ data.role \in RoleChoices \cup {Absent}
    /\ UserRegistrationSerializer_validate(data)

\* UserRegistrationSerializer.create: role is overwritten with USER, then
\* UserManager.create_user saves the row (is_active and is_superuser take
\* their defaults)
UserRegistrationSerializer_create(validated_data) ==
    User_save([role |-> "USER", is_active |-> TRUE, is_superuser |-> FALSE,
               first_name |-> "A", password |-> "p0"])

\* UserViewSet.create (also routed as register/)
UserCreate(user, data) ==
    /\ AccountsOnly
    /\ IF ~has_permission(UserViewSet_get_permissions("create"), user)
       THEN /\ resp' = UserResponse("user_create", user, DeniedStatus(user), data.email,
                                    data)
            /\ UNCHANGED users
       ELSE IF ~UserRegistrationSerializer_is_valid(data)
       THEN /\ resp' = UserResponse("user_create", user, 400, data.email, data)
            /\ UNCHANGED users
       ELSE /\ users' = [u \in DOMAIN users \cup {data.email} |->
                           IF u = data.email
                           THEN UserRegistrationSerializer_create(data)
                           ELSE users[u]]
            /\ resp' = UserResponse("user_create", user, 201, data.email, data)

\* UserViewSet.destroy
UserDestroy(user, pk) ==
    /\ AccountsOnly
    /\ LET cls == UserViewSet_get_permissions("destroy") IN
       IF ~has_permission(cls, user)
       THEN /\ resp' = UserResponse("user_destroy", user, DeniedStatus(user), pk, "")
            /\ UNCHANGED users
       ELSE IF pk \notin DOMAIN users
       THEN /\ resp' = UserResponse("user_destroy", user, 404, pk, "")
            /\ UNCHANGED users
       ELSE IF ~has_object_permission(cls, user, users[pk])
       THEN /\ resp' = UserResponse("user_destroy", user, 403, pk, "")
            /\ UNCHANGED users
       ELSE IF pk = user
       THEN /\ resp' = UserResponse("user_destroy", user, 400, pk, "")
            /\ UNCHANGED users
       ELSE /\ users' = [users EXCEPT ![pk] = User_save([@ EXCEPT !.is_active = FALSE])]
            /\ resp' = UserResponse("user_destroy", user, 200, pk, "")

(***************************************************************************)
(* apps/accounts: UserProfile                                              *)
(* A phone number is a sequence of characters; None and '' are both <<>>   *)
(***************************************************************************)
Digits == {"0", "1", "2", "3", "4", "5", "6", "7", "8", "9"}

\* UserProfile.phone: RegexValidator(regex=r'^\+?1?\d{9,15}$')
PhoneRegex_match(s) ==
    LET a == IF s # <<>> /\ s[1] = "+" THEN Tail(s) ELSE s
        b == IF a # <<>> /\ a[1] = "1" THEN Tail(a) ELSE a
    IN /\ \A i \in DOMAIN a : a[i] \in Digits
       /\ \/ Len(a) \in 9..15
          \/ b # a /\ Len(b) \in 9..15

GoodPhone == <<"+", "9", "1", "9", "8", "7", "6", "5", "4", "3", "2", "1", "0">>

BadPhone == <<"c", "a", "l", "l">>

\* Request bodies of a profile update: each of the fields phone and location
\* is present or not
ProfilePayloads ==
    {[location |-> "Pune"]} \cup [phone : {GoodPhone, BadPhone, <<>>}]

\* UserProfile.clean, run by save() through full_clean
UserProfile_clean(row) == row.phone # <<>> => PhoneRegex_match(row.phone)

\* The row get_or_create(user=...) creates: every field takes its default
UserProfile_create(user) == [user |-> user, phone |-> <<>>, location |-> ""]

\* UserProfile.objects.get_or_create(user=request.user): the table after it
UserProfile_get_or_create(user) ==
    IF user \in DOMAIN profiles THEN profiles
    ELSE [u \in DOMAIN profiles \cup {user} |->
            IF u = user THEN UserProfile_create(user) ELSE profiles[u]]

\* UserProfileUpdateSerializer.is_valid: phone is a CharField(max_length=15,
\* allow_blank) with the model's validator, then validate_phone; no field is
\* required, so PUT and PATCH accept the same bodies
UserProfileUpdateSerializer_is_valid(data) ==
    "phone" \in DOMAIN data =>
        /\ Len(data.phone) <= 15
        /\ data.phone # <<>> => PhoneRegex_match(data.phone)

\* UserProfileUpdateSerializer.save: the fields given overwrite the row's
UserProfileUpdateSerializer_save(row, data) ==
    [f \in DOMAIN row |-> IF f \in DOMAIN data THEN data[f] ELSE row[f]]

ProfilesOnly ==
    UNCHANGED <<today, users, pets, vaccinations, health_records, subscriptions, plans,
                appointments, perm>>

\* UserProfileViewSet.retrieve (GET profiles/{pk}/)
ProfileRetrieve(user, pk) ==
    /\ ProfilesOnly
    /\ UNCHANGED profiles
    /\ IF ~has_permission("IsUserSelfOrAdmin", user)
       THEN resp' = UserResponse("profile_retrieve", user, DeniedStatus(user), pk, "")
       ELSE IF pk \notin DOMAIN profiles
       THEN resp' = UserResponse("profile_retrieve", user, 404, pk, "")
       ELSE IF ~IsUserSelfOrAdmin_has_object_permission(user, profiles[pk])
       THEN resp' = UserResponse("profile_retrieve", user, 403, pk, "")
       ELSE resp' = UserResponse("profile_retrieve", user, 200, pk, "")

\* UserProfileViewSet.update (PUT profiles/{pk}/), inside transaction.atomic:
\* an exception rolls back every write of the request
ProfileUpdate(user, pk, data) ==
    /\ ProfilesOnly
    /\ IF ~has_permission("IsUserSelfOrAdmin", user)
       THEN /\ resp' = UserResponse("profile_update", user, DeniedStatus(user), pk, data)
            /\ UNCHANGED profiles
       ELSE IF pk \notin DOMAIN profiles
       THEN /\ resp' = UserResponse("profile_update", user, 404, pk, data)
            /\ UNCHANGED profiles
       ELSE IF ~IsUserSelfOrAdmin_has_object_permission(user, profiles[pk])
       THEN /\ resp' = UserResponse("profile_update", user, 403, pk, data)
            /\ UNCHANGED profiles
       ELSE IF ~UserProfileUpdateSerializer_is_valid(data)
       THEN /\ resp' = UserResponse("profile_update", user, 400, pk, data)
            /\ UNCHANGED profiles
       ELSE /\ profiles' = [profiles EXCEPT
                              ![pk] = UserProfileUpdateSerializer_save(@, data)]
            /\ resp' = UserResponse("profile_update", user, 200, pk, data)

\* UserProfileViewSet.me with GET
ProfileMeGet(user) ==
    /\ ProfilesOnly
    /\ IF ~has_permission("IsAuthenticated", user)
       THEN /\ resp' = UserResponse("profile_me_get", user, DeniedStatus(user), user, "")
            /\ UNCHANGED profiles
       ELSE /\ profiles' = UserProfile_get_or_create(user)
            /\ resp' = UserResponse("profile_me_get", user, 200, user, "")

\* UserProfileViewSet.me with PUT or PATCH.  The view runs outside any
\* transaction, so the row get_or_create inserted is committed before the
\* serializer looks at the request body
ProfileMeUpdate(user, data) ==
    /\ ProfilesOnly
    /\ IF ~has_permission("IsAuthenticated", user)
       THEN /\ resp' = UserResponse("profile_me_update", user, DeniedStatus(user), user,
                                    data)
            /\ UNCHANGED profiles
       ELSE LET created == UserProfile_get_or_create(user) IN
            IF ~UserProfileUpdateSerializer_is_valid(data)
            THEN /\ resp' = UserResponse("profile_me_update", user, 400, user, data)
                 /\ profiles' = created
            ELSE /\ profiles' = [created EXCEPT
                                   ![user] = UserProfileUpdateSerializer_save(@, data)]
                 /\ resp' = UserResponse("profile_me_update", user, 200, user, data)

(***************************************************************************)
(* apps/subscriptions: SubscriptionPlan                                    *)
(* A plan is its plan_type and its price; the other fields keep valid      *)
(* values.  plan_type is unique.                                           *)
(***************************************************************************)
PLAN_TYPES == {"free", "premium"}

\* Prices, in whole currency units
Prices == {-1, 0, 1}

\* price missing from a request body
AbsentPrice == -100

PlanPayloads == [plan_type : PLAN_TYPES \cup {Absent}, price : Prices \cup {AbsentPrice}]

\* The admin form always carries both fields
PlanForms == [plan_type : PLAN_TYPES, price : Prices]

PlansOnly ==
    UNCHANGED <<today, users, pets, vaccinations, health_records, subscriptions,
                profiles, appointments, perm>>

\* SubscriptionPlan.clean
SubscriptionPlan_clean(row) == ~(row.plan_type = "free" /\ row.price > 0)

\* validate_unique of full_clean: no other row has this plan_type
SubscriptionPlan_validate_unique(row, pk) ==
    \A p \in DOMAIN plans : p # pk => plans[p].plan_type # row.plan_type

\* SubscriptionPlan.save: full_clean, then the row is written
SubscriptionPlan_full_clean(row, pk) ==
    SubscriptionPlan_clean(row) /\ SubscriptionPlan_validate_unique(row, pk)

\* SubscriptionPlanSerializer.validate_price
SubscriptionPlanSerializer_validate_price(value) == ~(value < 0)

\* SubscriptionPlanSerializer.validate: `attrs.get(f) or instance.f` takes
\* the instance's value also when the price given is 0
SubscriptionPlanSerializer_validate(attrs, instance) ==
    LET plan_type == IF attrs.plan_type # Absent THEN attrs.plan_type
                     ELSE instance.plan_type
        price == IF attrs.price # AbsentPrice /\ attrs.price # 0 THEN attrs.price
                 ELSE instance.price
    IN ~(plan_type = "free" /\ price # AbsentPrice /\ price # 0 /\ price > 0)

\* An instance that does not exist (self.instance is None)
NoPlan == [plan_type |-> Absent, price |-> AbsentPrice]

\* SubscriptionPlanSerializer.is_valid: plan_type is required on create and
\* unique, then validate_price and validate
SubscriptionPlanSerializer_is_valid(data, instance, pk, partial) ==
    /\ partial \/ data.plan_type # Absent
    /\ data.plan_type # Absent =>
           \A p \in DOMAIN plans : p # pk => plans[p].plan_type # data.plan_type
    /\ data.price # AbsentPrice => SubscriptionPlanSerializer_validate_price(data.price)
    /\ SubscriptionPlanSerializer_validate(data, instance)

\* The row the serializer builds: fields given overwrite, price defaults to 0
SubscriptionPlanSerializer_row(data, instance) ==
    [plan_type |-> IF data.plan_type # Absent THEN data.plan_type ELSE instance.plan_type,
     price |-> IF data.price # AbsentPrice THEN data.price
               ELSE IF instance = NoPlan THEN 0 ELSE instance.price]

\* SubscriptionPlanViewSet.get_permissions for the writing actions
SubscriptionPlanViewSet_get_permissions == "IsAdmin"

\* SubscriptionPlanViewSet.create
PlanCreate(user, data) ==
    /\ PlansOnly
    /\ LET pk == Cardinality(DOMAIN plans) + 1
           row == SubscriptionPlanSerializer_row(data, NoPlan)
       IN IF ~has_permission(SubscriptionPlanViewSet_get_permissions, user)
          THEN /\ resp' = Response("plan_create", user, DeniedStatus(user), 0, {}, data)
               /\ UNCHANGED plans
          ELSE IF \/ ~SubscriptionPlanSerializer_is_valid(data, NoPlan, 0, FALSE)
                  \/ ~SubscriptionPlan_full_clean(row, 0)
          THEN /\ resp' = Response("plan_create", user, 400, 0, {}, data)
               /\ UNCHANGED plans
          ELSE /\ plans' = [p \in DOMAIN plans \cup {pk} |->
                              IF p = pk THEN row ELSE plans[p]]
               /\ resp' = Response("plan_create", user, 201, pk, {pk}, data)

\* SubscriptionPlanViewSet.partial_update; admins see every plan
PlanPartialUpdate(user, pk, data) ==
    /\ PlansOnly
    /\ IF ~has_permission(SubscriptionPlanViewSet_get_permissions, user)
       THEN /\ resp' = Response("plan_partial_update", user, DeniedStatus(user), pk, {},
                                data)
            /\ UNCHANGED plans
       ELSE IF pk \notin DOMAIN plans
       THEN /\ resp' = Response("plan_partial_update", user, 404, pk, {}, data)
            /\ UNCHANGED plans
       ELSE LET row == SubscriptionPlanSerializer_row(data, plans[pk]) IN
            IF \/ ~SubscriptionPlanSerializer_is_valid(data, plans[pk], pk, TRUE)
               \/ ~SubscriptionPlan_full_clean(row, pk)
            THEN /\ resp' = Response("plan_partial_update", user, 400, pk, {}, data)
                 /\ UNCHANGED plans
            ELSE /\ plans' = [plans EXCEPT ![pk] = row]
                 /\ resp' = Response("plan_partial_update", user, 200, pk, {pk}, data)

\* SubscriptionPlanAdmin, add form: the model form runs full_clean and the
\* row is saved with SubscriptionPlan.save; 200 shows the form again with
\* its errors, 302 redirects after the save
PlanAdminAdd(form) ==
    /\ PlansOnly
    /\ LET pk == Cardinality(DOMAIN plans) + 1 IN
       IF ~SubscriptionPlan_full_clean(form, 0)
       THEN /\ resp' = Response("plan_admin_add", "admin", 200, 0, {}, form)
            /\ UNCHANGED plans
       ELSE /\ plans' = [p \in DOMAIN plans \cup {pk} |->
                           IF p = pk THEN form ELSE plans[p]]
            /\ resp' = Response("plan_admin_add", "admin", 302, pk, {pk}, form)

\* SubscriptionPlanAdmin, change form
PlanAdminChange(pk, form) ==
    /\ PlansOnly
    /\ pk \in DOMAIN plans
    /\ IF ~SubscriptionPlan_full_clean(form, pk)
       THEN /\ resp' = Response("plan_admin_change", "admin", 200, pk, {}, form)
            /\ UNCHANGED plans
       ELSE /\ plans' = [plans EXCEPT ![pk] = form]
            /\ resp' = Response("plan_admin_change", "admin", 302, pk, {pk}, form)

(***************************************************************************)
(* apps/appointments                                                       *)
(* appointment_date and timezone.now() are day numbers                     *)
(***************************************************************************)
MaxAppointments == 1

AppointmentPayloads == [pet : (1..MaxPets) \cup {AbsentPk}, appointment_date : Days \cup {AbsentDate}]

\* The users who own pets
AppointmentOwners == {"u1", "u2"}

\* The admin form carries the owner as well
AppointmentForms == [pet : 1..MaxPets, owner : AppointmentOwners, appointment_date : Days]

\* The response of an appointment request, with the time of the request
AppointmentResponse(op, user, status, pk, given) ==
    [op |-> op, user |-> user, status |-> status, pk |-> pk, data |-> {},
     given |-> given, now |-> today]

AppointmentsOnly ==
    UNCHANGED <<today, users, pets, vaccinations, health_records, subscriptions,
                profiles, plans, perm>>

\* clean() without the date check
Appointment_clean_any_date(row) == pets[row.pet].owner = row.owner

\* Appointment.clean
Appointment_clean(row) ==
    /\ ~(row.appointment_date < today)
    /\ pets[row.pet].owner = row.owner

\* AppointmentSerializer.is_valid: pet names a pet of Pet.objects and
\* appointment_date is given; whatever else the serializer may refuse,
\* Appointment.save validates the row again
AppointmentSerializer_is_valid(data) ==
    /\ data.pet \in Pet_objects
    /\ data.appointment_date # AbsentDate

\* AppointmentViewSet.get_permissions
AppointmentViewSet_get_permissions == "IsAppointmentOwnerOrAdmin"

\* AppointmentViewSet.create, inside transaction.atomic: the object check is
\* made on the pet, the row is saved with owner=request.user, and a
\* ValidationError of Appointment.save rolls the request back
AppointmentCreate(user, data) ==
    /\ Cardinality(DOMAIN appointments) < MaxAppointments
    /\ AppointmentsOnly
    /\ LET pk == Cardinality(DOMAIN appointments) + 1
           cls == AppointmentViewSet_get_permissions
       IN IF ~has_permission(cls, user)
          THEN /\ resp' = AppointmentResponse("appointment_create", user,
                                              DeniedStatus(user), 0, data)
               /\ UNCHANGED appointments
          ELSE IF ~AppointmentSerializer_is_valid(data)
          THEN /\ resp' = AppointmentResponse("appointment_create", user, 400, 0, data)
               /\ UNCHANGED appointments
          ELSE IF ~has_object_permission(cls, user, pets[data.pet])
          THEN /\ resp' = AppointmentResponse("appointment_create", user, 403, 0, data)
               /\ UNCHANGED appointments
          ELSE LET row == [pet |-> data.pet, owner |-> user,
                           appointment_date |-> data.appointment_date,
                           status |-> "scheduled"]
               IN IF ~Appointment_clean(row)
                  THEN /\ resp' = AppointmentResponse("appointment_create", user, 400, 0,
                                                      data)
                       /\ UNCHANGED appointments
                  ELSE /\ appointments' = [a \in DOMAIN appointments \cup {pk} |->
                                             IF a = pk THEN row ELSE appointments[a]]
                       /\ resp' = AppointmentResponse("appointment_create", user, 201,
                                                      pk, data)

\* AppointmentAdmin, add form: the model form runs full_clean and the row is
\* saved with Appointment.save; 200 shows the form again with its errors
AppointmentAdminAdd(form) ==
    /\ Cardinality(DOMAIN appointments) < MaxAppointments
    /\ AppointmentsOnly
    /\ LET pk == Cardinality(DOMAIN appointments) + 1
           row == [pet |-> form.pet, owner |-> form.owner,
                   appointment_date |-> form.appointment_date, status |-> "scheduled"]
       IN IF form.pet \notin Pet_objects \/ ~Appointment_clean(row)
          THEN /\ resp' = AppointmentResponse("appointment_admin_add", "admin", 200, 0,
                                              form)
               /\ UNCHANGED appointments
          ELSE /\ appointments' = [a \in DOMAIN appointments \cup {pk} |->
                                     IF a = pk THEN row ELSE appointments[a]]
               /\ resp' = AppointmentResponse("appointment_admin_add", "admin", 302, pk,
                                              form)

(***************************************************************************)
(* apps/accounts: update, me, change-password and login                    *)
(* A user row carries first_name of the fields UserUpdateSerializer        *)
(* writes; a phone number sent is the empty text or one the validator      *)
(* refuses; every password sent passes the password validators.            *)
(***************************************************************************)
\* Meta.fields with role added
UserUpdateSerializer_fields_with_role == {"first_name", "role"}

\* UserUpdateSerializer.Meta.fields, of the fields a row carries
UserUpdateSerializer_fields == {"first_name"}

\* UserUpdateSerializer.validate_phone_number and the validator of the field
UserUpdateSerializer_is_valid(data) ==
    data.phone_number = <<>> \/ PhoneRegex_match(data.phone_number)

\* ModelSerializer.update and User.save: the fields of Meta.fields that the
\* payload names are written, every other key of the payload is dropped
UserUpdateSerializer_save(row, data) ==
    User_save([f \in DOMAIN row |->
                  IF f \in UserUpdateSerializer_fields /\ data[f] # Absent
                  THEN data[f] ELSE row[f]])

UserPayloads == [first_name : {"B", Absent}, role : {"ADMIN", Absent},
                 phone_number : {<<>>, BadPhone}]

\* UserViewSet.update and partial_update (UpdateModelMixin)
UserWrite(op, action, user, pk, data) ==
    /\ AccountsOnly
    /\ LET cls == UserViewSet_get_permissions(action) IN
       IF ~has_permission(cls, user)
       THEN /\ resp' = UserResponse(op, user, DeniedStatus(user), pk, data)
            /\ UNCHANGED users
       ELSE IF pk \notin DOMAIN users
       THEN /\ resp' = UserResponse(op, user, 404, pk, data)
            /\ UNCHANGED users
       ELSE IF ~has_object_permission(cls, user, [id |-> pk])
       THEN /\ resp' = UserResponse(op, user, 403, pk, data)
            /\ UNCHANGED users
       ELSE IF ~UserUpdateSerializer_is_valid(data)
       THEN /\ resp' = UserResponse(op, user, 400, pk, data)
            /\ UNCHANGED users
       ELSE /\ users' = [users EXCEPT ![pk] = UserUpdateSerializer_save(@, data)]
            /\ resp' = UserResponse(op, user, 200, pk, data)

UserUpdate(user, pk, data) == UserWrite("user_update", "update", user, pk, data)

UserPartialUpdate(user, pk, data) ==
    UserWrite("user_partial_update", "partial_update", user, pk, data)

\* UserViewSet.me: GET reads, PUT and PATCH update the requester
UserMe(user, method, data) ==
    /\ AccountsOnly
    /\ IF ~has_permission(UserViewSet_get_permissions("me"), user)
       THEN /\ resp' = UserResponse("me", user, DeniedStatus(user), user, data)
            /\ UNCHANGED users
       ELSE IF method = "GET"
       THEN /\ resp' = UserResponse("me", user, 200, user, data)
            /\ UNCHANGED users
       ELSE IF ~UserUpdateSerializer_is_valid(data)
       THEN /\ resp' = UserResponse("me", user, 400, user, data)
            /\ UNCHANGED users
       ELSE /\ users' = [users EXCEPT ![user] = UserUpdateSerializer_save(@, data)]
            /\ resp' = UserResponse("me", user, 200, user, data)

Passwords == {"p0", "p1"}

PasswordPayloads == [old_password : Passwords, new_password : Passwords,
                     new_password_confirm : Passwords]

\* ChangePasswordSerializer.validate_old_password and validate
ChangePasswordSerializer_is_valid(user, data) ==
    /\ users[user].password = data.old_password
    /\ data.new_password = data.new_password_confirm
    /\ data.old_password # data.new_password

\* UserViewSet.change_password; ChangePasswordSerializer.save sets the
\* password and saves the user
UserChangePassword(user, data) ==
    /\ AccountsOnly
    /\ IF ~has_permission(UserViewSet_get_permissions("change_password"), user)
       THEN /\ resp' = UserResponse("change_password", user, DeniedStatus(user), user, "")
            /\ UNCHANGED users
       ELSE IF ~ChangePasswordSerializer_is_valid(user, data)
       THEN /\ resp' = UserResponse("change_password", user, 400, user, "")
            /\ UNCHANGED users
       ELSE /\ users' = [users EXCEPT
                            ![user] = User_save([@ EXCEPT !.password = data.new_password])]
            /\ resp' = UserResponse("change_password", user, 200, user, "")

\* No user: what authenticate() returns when it turns the credentials down
None == "None"

\* django.contrib.auth.authenticate with ModelBackend: the user of the
\* email when the password is the user's and the user is active
authenticate(username, password) ==
    IF /\ username \in DOMAIN users
       /\ users[username].password = password
       /\ users[username].is_active
    THEN username ELSE None

\* validate that asks for the password only
UserLoginSerializer_validate_password_only(attrs) ==
    IF attrs.email \in DOMAIN users /\ users[attrs.email].password = attrs.password
    THEN attrs.email ELSE None

\* UserLoginSerializer.validate: the user the credentials name, None when
\* authenticate() finds none or the user is not active
UserLoginSerializer_validate(attrs) ==
    LET user == authenticate(attrs.email, attrs.password) IN
    IF user = None THEN None
    ELSE IF ~users[user].is_active THEN None
    ELSE user

LoginPayloads == [email : {"u1", "n1"}, password : Passwords]

\* The response of a login: tokens says whether a token pair was issued
LoginResponse(status, data, tokens) ==
    [op |-> "login", user |-> Anonymous, status |-> status, pk |-> 0, data |-> {},
     given |-> data, target |-> data.email, tokens |-> tokens]

\* UserLoginView.post
UserLogin(data) ==
    /\ AccountsOnly
    /\ UNCHANGED users
    /\ IF UserLoginSerializer_validate(data) = None
       THEN resp' = LoginResponse(400, data, FALSE)
       ELSE resp' = LoginResponse(200, data, TRUE)

(***************************************************************************)
(* utils/exception_handler.py                                              *)
(* An exception is its class and what it carries; str(exc) is its text.    *)
(* The message of a database error is a sequence of words.                 *)
(***************************************************************************)
ExcTexts == {"", "relation pets_pet"}

\* Exceptions of Django and of Python that are not API exceptions
DjangoClasses == {"Http404", "PermissionDenied", "ObjectDoesNotExist"}

OtherClasses == {"ValueError", "KeyError", "OperationalError"}

\* rest_framework.exceptions, with status_code and default_code
DRFClasses == {"NotAuthenticated", "AuthenticationFailed", "DRFPermissionDenied",
               "NotFound", "MethodNotAllowed", "ParseError", "Throttled"}

\* backend/utils/exceptions.py: the subclasses of the project's APIException
CustomClasses == {"NotFoundException", "PermissionDeniedException",
                  "BadRequestException", "UnauthorizedException", "ConflictException",
                  "UnprocessableEntityException"}

Backends == {"sqlite", "postgresql"}

Violations == {"unique", "foreign_key", "not_null"}

Exceptions ==
    [cls : DjangoClasses \cup OtherClasses \cup DRFClasses \cup CustomClasses,
     text : ExcTexts]
    \cup [cls : {"DjangoValidationError"}, form : {"error_dict", "error_list"},
          text : ExcTexts]
    \cup [cls : {"DRFValidationError"}, form : {"fields", "list"}, text : ExcTexts]
    \cup [cls : {"ValidationException"}, errors : BOOLEAN, text : ExcTexts]
    \cup [cls : {"IntegrityError"}, backend : Backends, violation : Violations]

\* str(exc) of an IntegrityError: the message of the database backend
DatabaseMessage(backend, violation) ==
    IF backend = "sqlite"
    THEN CASE violation = "unique" -> <<"UNIQUE", "constraint", "failed">>
           [] violation = "foreign_key" -> <<"FOREIGN", "KEY", "constraint", "failed">>
           [] OTHER -> <<"NOT", "NULL", "constraint", "failed">>
    ELSE CASE violation = "unique" ->
                <<"duplicate", "key", "value", "violates", "unique", "constraint">>
           [] violation = "foreign_key" ->
                <<"insert", "or", "update", "on", "table", "violates", "foreign",
                  "key", "constraint">>
           [] OTHER ->
                <<"null", "value", "in", "column", "violates", "not-null",
                  "constraint">>

\* sub in message
Contains(message, sub) ==
    \E i \in 1..(Len(message) - Len(sub) + 1) :
        SubSeq(message, i, i + Len(sub) - 1) = sub

\* str.lower
Lower(message) ==
    [i \in DOMAIN message |->
        CASE message[i] = "UNIQUE" -> "unique"
          [] message[i] = "FOREIGN" -> "foreign"
          [] message[i] = "KEY" -> "key"
          [] message[i] = "NOT" -> "not"
          [] message[i] = "NULL" -> "null"
          [] OTHER -> message[i]]

\* status_code and default_code of an API exception class
status_code(cls) ==
    CASE cls \in {"NotAuthenticated", "AuthenticationFailed", "UnauthorizedException"} -> 401
      [] cls \in {"DRFPermissionDenied", "PermissionDeniedException"} -> 403
      [] cls \in {"NotFound", "NotFoundException"} -> 404
      [] cls = "MethodNotAllowed" -> 405
      [] cls = "ConflictException" -> 409
      [] cls = "UnprocessableEntityException" -> 422
      [] cls = "Throttled" -> 429
      [] OTHER -> 400

default_code(cls) ==
    CASE cls = "NotAuthenticated" -> "not_authenticated"
      [] cls = "AuthenticationFailed" -> "authentication_failed"
      [] cls = "DRFPermissionDenied" -> "permission_denied"
      [] cls = "NotFound" -> "not_found"
      [] cls = "MethodNotAllowed" -> "method_not_allowed"
      [] cls = "ParseError" -> "parse_error"
      [] cls = "Throttled" -> "throttled"
      [] cls = "DRFValidationError" -> "invalid"
      [] cls = "ValidationException" -> "VALIDATION_ERROR"
      [] cls = "NotFoundException" -> "NOT_FOUND"
      [] cls = "PermissionDeniedException" -> "PERMISSION_DENIED"
      [] cls = "BadRequestException" -> "BAD_REQUEST"
      [] cls = "UnauthorizedException" -> "UNAUTHORIZED"
      [] cls = "ConflictException" -> "CONFLICT"
      [] cls = "UnprocessableEntityException" -> "UNPROCESSABLE_ENTITY"
      [] OTHER -> "error"

\* str(exc.detail): the detail given, else default_detail
detail(exc) == IF exc.text = "" THEN "default_detail" ELSE exc.text

\* What the handler answers: the status and the fields of the error body
ErrorResult(status, message, has_errors, error_code) ==
    [status |-> status, message |-> message, errors |-> has_errors,
     error_code |-> error_code]

\* validation_error_response: error_response drops an empty errors map
validation_error_response(has_errors, message, status) ==
    ErrorResult(status, message, has_errors, "VALIDATION_ERROR")

handle_custom_exception(exc) ==
    IF exc.cls = "ValidationException"
    THEN validation_error_response(exc.errors, detail(exc), status_code(exc.cls))
    ELSE ErrorResult(status_code(exc.cls), detail(exc), FALSE, default_code(exc.cls))

handle_http404(exc) ==
    ErrorResult(404, IF exc.text # "" THEN exc.text ELSE "Resource not found", FALSE,
                "NOT_FOUND")

handle_permission_denied(exc) ==
    ErrorResult(403,
                IF exc.text # "" THEN exc.text
                ELSE "You do not have permission to perform this action",
                FALSE, "PERMISSION_DENIED")

\* error_dict gives a map by field, error_list a map with non_field_errors
handle_django_validation_error(exc) ==
    validation_error_response(TRUE, "Validation failed", 400)

handle_integrity_error(exc) ==
    LET error_message == DatabaseMessage(exc.backend, exc.violation) IN
    IF \/ Contains(error_message, <<"UNIQUE", "constraint">>)
       \/ Contains(Lower(error_message), <<"duplicate", "key">>)
    THEN ErrorResult(400, "A record with this information already exists", FALSE,
                     "DUPLICATE_ENTRY")
    ELSE IF Contains(error_message, <<"FOREIGN", "KEY", "constraint">>)
    THEN ErrorResult(400, "Invalid reference to related resource", FALSE,
                     "INVALID_REFERENCE")
    ELSE ErrorResult(400, "Database integrity error occurred", FALSE, "INTEGRITY_ERROR")

handle_object_not_found(exc) == ErrorResult(404, "Resource not found", FALSE, "NOT_FOUND")

\* response.data of rest_framework's exception_handler is {'detail': ...},
\* a map of field errors, or a list
handle_drf_exception(exc) ==
    IF exc.cls # "DRFValidationError"
    THEN ErrorResult(status_code(exc.cls), detail(exc), FALSE, default_code(exc.cls))
    ELSE IF exc.form = "fields"
    THEN ErrorResult(400, "Validation failed", TRUE, default_code(exc.cls))
    ELSE ErrorResult(400, detail(exc), TRUE, default_code(exc.cls))

ServerErrorMessage == "An internal server error occurred. Please try again later."

\* handle_unexpected_exception that answers with str(exc)
handle_unexpected_exception_with_text(exc) ==
    ErrorResult(500, exc.text, FALSE, "SERVER_ERROR")

handle_unexpected_exception(exc) ==
    ErrorResult(500, ServerErrorMessage, FALSE, "SERVER_ERROR")

\* custom_exception_handler: the isinstance tests in their order; the
\* response of rest_framework's exception_handler is not None for the
\* classes of rest_framework.exceptions
custom_exception_handler(exc) ==
    IF exc.cls \in CustomClasses \cup {"ValidationException"}
    THEN handle_custom_exception(exc)
    ELSE IF exc.cls = "Http404" THEN handle_http404(exc)
    ELSE IF exc.cls = "PermissionDenied" THEN handle_permission_denied(exc)
    ELSE IF exc.cls = "DjangoValidationError" THEN handle_django_validation_error(exc)
    ELSE IF exc.cls = "IntegrityError" THEN handle_integrity_error(exc)
    ELSE IF exc.cls = "ObjectDoesNotExist" THEN handle_object_not_found(exc)
    ELSE IF exc.cls \in DRFClasses \cup {"DRFValidationError"}
    THEN handle_drf_exception(exc)
    ELSE handle_unexpected_exception(exc)

\* A view of a request of `user` raises exc and the handler answers
HandleException(user, exc) ==
    /\ LET r == custom_exception_handler(exc) IN
       resp' = [op |-> "exception", user |-> user, status |-> r.status, pk |-> 0,
                data |-> {}, given |-> exc, result |-> r]
    /\ UNCHANGED stored
    /\ UNCHANGED <<today, perm>>

(***************************************************************************)
(* The object-level check on its own: a requester, a permission class and  *)
(* a record of one of the kinds of the data model                          *)
(***************************************************************************)
OwnershipClasses == {"IsOwnerOrAdmin", "IsPetOwnerOrAdmin", "IsAppointmentOwnerOrAdmin"}

\* Pet(owner); Vaccination and HealthRecord(pet); Appointment(owner, pet);
\* Notification, UserSubscription and UserProfile(user)
PermObjects ==
    [kind : {"pet"}, owner : Users]
    \cup [kind : {"vaccination", "health_record"}, pet : [owner : Users]]
    \cup [kind : {"appointment"}, owner : Users, pet : [owner : Users]]
    \cup [kind : {"notification", "subscription", "profile"}, user : Users]

\* APIView.check_object_permissions with one permission class
CheckObjectPermission(cls, user, obj) ==
    /\ perm' = [cls |-> cls, user |-> user, obj |-> obj,
                result |-> has_object_permission(cls, user, obj)]
    /\ UNCHANGED <<today, users, pets, vaccinations, health_records, subscriptions, profiles, plans, appointments, resp>>

\* The clock: a day passes between requests
AdvanceDay ==
    /\ today < MaxDay
    /\ today' = today + 1
    /\ UNCHANGED <<users, pets, vaccinations, health_records, subscriptions, profiles, plans, appointments, perm, resp>>

\* The accounts that exist before the first request: two users and one
\* superuser created with create_superuser (role ADMIN)
InitialUsers ==
    [u \in Users |-> [role |-> IF u = "admin" THEN "ADMIN" ELSE "USER",
                      is_active |-> TRUE, is_superuser |-> u = "admin",
                      first_name |-> "A", password |-> "p0"]]

\* Profiles are created on first use: one account has fetched its profile
\* already, the others have none
InitialProfiles == [u \in {"u2"} |-> UserProfile_create(u)]

Init ==
    /\ today = 0
    /\ users = InitialUsers
    /\ pets = <<>>
    /\ vaccinations = <<>>
    /\ health_records = <<>>
    /\ subscriptions = <<>>
    /\ profiles = InitialProfiles
    /\ plans = <<>>
    /\ appointments = <<>>
    /\ perm = NoPerm
    /\ resp = NoResponse

PetIds == 1..MaxPets

ValidPet == [owner |-> Absent, name |-> "Rex"]

Next ==
    \/ \E u \in Requesters, d \in PetPayloads : PetCreate(u, d)
    \/ \E u \in Requesters, p \in PetIds, d \in PetPayloads : PetUpdate(u, p, d)
    \/ \E u \in Requesters, p \in PetIds, d \in PetPayloads : PetPartialUpdate(u, p, d)
    \/ \E u \in Requesters, p \in PetIds : PetDestroy(u, p)
    \/ \E u \in Requesters, p \in PetIds : PetRestore(u, p)
    \/ \E u \in Requesters : PetList(u)
    \/ \E u \in Requesters : PetMyPets(u)

Spec == Init /\ [][Next]_vars

(***************************************************************************)
(* Soft delete: the pet endpoints of one owner and of an admin, and the    *)
(* admin site                                                              *)
(***************************************************************************)
PetRequesters == {"u1", "admin"}

NextPetAdmin ==
    \/ \E u \in PetRequesters : PetCreate(u, [ValidPet EXCEPT !.owner = u])
    \/ \E u \in PetRequesters, p \in PetIds : PetUpdate(u, p, [ValidPet EXCEPT !.owner = "u1"])
    \/ \E u \in PetRequesters, p \in PetIds : PetPartialUpdate(u, p, [ValidPet EXCEPT !.name = Absent])
    \/ \E u \in PetRequesters, p \in PetIds : PetRetrieve(u, p)
    \/ \E u \in PetRequesters, p \in PetIds : PetDestroy(u, p)
    \/ \E u \in PetRequesters, p \in PetIds : PetRestore(u, p)
    \/ \E u \in PetRequesters : PetList(u)
    \/ \E p \in PetIds, f \in PetAdminForms : PetAdminChange(p, f)
    \/ \E p \in PetIds : PetAdminDelete(p)
    \/ \E sel \in SUBSET PetIds : PetAdminRestore(sel)

SpecPetAdmin == Init /\ [][NextPetAdmin]_vars

(***************************************************************************)
(* Profiles: every requester reads and updates profiles                    *)
(***************************************************************************)
NextProfiles ==
    \/ \E u \in Requesters, pk \in Users : ProfileRetrieve(u, pk)
    \/ \E u \in Requesters, pk \in Users, d \in ProfilePayloads : ProfileUpdate(u, pk, d)
    \/ \E u \in Requesters : ProfileMeGet(u)
    \/ \E u \in Requesters, d \in ProfilePayloads : ProfileMeUpdate(u, d)

SpecProfiles == Init /\ [][NextProfiles]_vars

(***************************************************************************)
(* The exception handler on every exception a request can raise            *)
(***************************************************************************)
NextHandler == \E u \in Requesters, exc \in Exceptions : HandleException(u, exc)

SpecHandler == Init /\ [][NextHandler]_vars

(***************************************************************************)
(* Plans: the plan endpoints and the admin site                            *)
(***************************************************************************)
PlanIds == 1..Cardinality(PLAN_TYPES)

NextPlans ==
    \/ \E u \in Requesters, d \in PlanPayloads : PlanCreate(u, d)
    \/ \E u \in Requesters, p \in PlanIds, d \in PlanPayloads : PlanPartialUpdate(u, p, d)
    \/ \E f \in PlanForms : PlanAdminAdd(f)
    \/ \E p \in PlanIds, f \in PlanForms : PlanAdminChange(p, f)

SpecPlans == Init /\ [][NextPlans]_vars

(***************************************************************************)
(* Appointments: owners register pets and book, the admin site adds        *)
(* appointments, days pass                                                 *)
(***************************************************************************)
NextAppointments ==
    \/ \E u \in AppointmentOwners :
           /\ \A p \in DOMAIN pets : pets[p].owner # u
           /\ PetCreate(u, [ValidPet EXCEPT !.owner = u])
    \/ \E u \in Requesters, d \in AppointmentPayloads : AppointmentCreate(u, d)
    \/ \E f \in AppointmentForms : AppointmentAdminAdd(f)
    \/ AdvanceDay

SpecAppointments == Init /\ [][NextAppointments]_vars

(***************************************************************************)
(* Accounts: registration and account deletion by every requester          *)
(***************************************************************************)
AccountRequesters == Requesters \cup RegEmails

AccountTargets == Users \cup RegEmails \cup {"nobody"}

NextAccounts ==
    \/ \E u \in AccountRequesters, d \in RegPayloads : UserCreate(u, d)
    \/ \E u \in AccountRequesters, k \in AccountTargets : UserDestroy(u, k)

SpecAccounts == Init /\ [][NextAccounts]_vars

(***************************************************************************)
(* Authorization of the health endpoints: pets of several owners, the      *)
(* vaccination and health-record requests of every requester               *)
(***************************************************************************)
\* Payloads that leave status and administered_date to their defaults
PlainVaccPayloads ==
    {d \in VaccPayloads : d.status = Absent /\ d.administered_date = AbsentDate}

HealthPayloads == [pet : 1..MaxPets, record_date : Days]

NextHealth ==
    \/ \E u \in Users : PetCreate(u, [ValidPet EXCEPT !.owner = u])
    \/ \E u \in Users, p \in PetIds : PetDestroy(u, p)
    \/ \E u \in Requesters, d \in PlainVaccPayloads : VaccinationCreate(u, d)
    \/ \E u \in Requesters, v \in 1..MaxVacc, d \in PlainVaccPayloads :
          VaccinationUpdate(u, v, d)
    \/ \E u \in Requesters, v \in 1..MaxVacc, d \in PlainVaccPayloads :
          VaccinationPartialUpdate(u, v, d)
    \/ \E u \in Requesters, d \in HealthPayloads : HealthRecordCreate(u, d)
    \/ \E u \in Requesters, p \in PetIds : PetRecords(u, p)

SpecHealth == Init /\ [][NextHealth]_vars

(***************************************************************************)
(* Vaccination status derivation: one owner, every payload, the admin      *)
(* forms and the clock                                                     *)
(***************************************************************************)
\* Vaccination.save() reads and writes the saved row alone, so one
\* vaccination is followed through every save; the payloads name the one pet
\* or none
OnePetVaccPayloads == {d \in VaccPayloads : d.pet \in {1, AbsentPk}}

NextVacc ==
    \/ pets = <<>> /\ PetCreate("u1", [ValidPet EXCEPT !.owner = "u1"])
    \/ vaccinations = <<>> /\ \E d \in OnePetVaccPayloads : VaccinationCreate("u1", d)
    \/ \E v \in 1..MaxVacc, d \in OnePetVaccPayloads : VaccinationUpdate("u1", v, d)
    \/ \E v \in 1..MaxVacc, d \in OnePetVaccPayloads :
          VaccinationPartialUpdate("u1", v, d)
    \/ vaccinations = <<>> /\ \E r \in VaccRows : VaccinationAdminAdd(r)
    \/ \E v \in 1..MaxVacc, r \in VaccRows : VaccinationAdminChange(v, r)
    \/ AdvanceDay

SpecVacc == Init /\ [][NextVacc]_vars

(***************************************************************************)
(* Subscriptions: the API requests, the admin site and the clock           *)
(***************************************************************************)
SubIds == 1..MaxSubs

\* The payloads an admin sends: complete ones (user and plan named) and
\* partial ones (neither named)
SubApiPayloads ==
    {d \in SubPayloads : \/ d.user = "u1" /\ d.plan = "premium"
                         \/ d.user = Absent /\ d.plan = Absent}

\* A requester without the ADMIN role is turned away before the payload is
\* read: one payload stands for all
SubPayloadsOf(u) ==
    IF Role(u) = "ADMIN" /\ is_authenticated(u) THEN SubApiPayloads
    ELSE {d \in SubApiPayloads : d.user = Absent /\ d.start_date = AbsentDate
             /\ d.end_date = AbsentDate /\ d.is_active = Absent /\ d.status = "active"}

SubRequesters == {"u1", "admin", Anonymous}

NextSub ==
    \/ \E u \in SubRequesters : \E d \in SubPayloadsOf(u) : SubscriptionCreate(u, d)
    \/ \E u \in SubRequesters, k \in SubIds : \E d \in SubPayloadsOf(u) :
          SubscriptionUpdate(u, k, d)
    \/ \E u \in SubRequesters, k \in SubIds : \E d \in SubPayloadsOf(u) :
          SubscriptionPartialUpdate(u, k, d)
    \/ \E u \in SubRequesters, k \in SubIds : SubscriptionCancel(u, k)
    \/ \E r \in SubRows : SubscriptionAdminAdd(r)
    \/ \E k \in SubIds, r \in SubRows : SubscriptionAdminChange(k, r)
    \/ \E sel \in SUBSET SubIds : SubscriptionAdminCancel(sel)
    \/ \E sel \in SUBSET SubIds : SubscriptionAdminActivate(sel)
    \/ AdvanceDay

SpecSub == Init /\ [][NextSub]_vars

\* UserSubscription.save() reads and writes the saved row alone: the same
\* requests and admin operations, with one subscription followed through
\* every save
NextSubSave ==
    \/ subscriptions = <<>> /\ \E u \in SubRequesters : \E d \in SubPayloadsOf(u) :
          SubscriptionCreate(u, d)
    \/ \E u \in SubRequesters : \E d \in SubPayloadsOf(u) :
          d.user # Absent /\ SubscriptionUpdate(u, 1, d)
    \/ \E u \in SubRequesters : \E d \in SubPayloadsOf(u) :
          d.user = Absent /\ SubscriptionPartialUpdate(u, 1, d)
    \/ \E u \in SubRequesters : SubscriptionCancel(u, 1)
    \/ subscriptions = <<>> /\ \E r \in SubRows : SubscriptionAdminAdd(r)
    \/ \E r \in SubRows : SubscriptionAdminChange(1, r)
    \/ \E sel \in SUBSET {1} : SubscriptionAdminCancel(sel)
    \/ \E sel \in SUBSET {1} : SubscriptionAdminActivate(sel)
    \/ AdvanceDay

SpecSubSave == Init /\ [][NextSubSave]_vars

\* The microchip numbers of the pets of one owner: creates, updates, soft
\* deletes and restores through the API, and the change form of the admin
ChipPet(c) == [owner |-> "u1", name |-> "Rex", microchip_number |-> c]

ChipPatch(c) == [owner |-> Absent, name |-> Absent, microchip_number |-> c]

ChipForm(c, b) == [name |-> "Rex", is_deleted |-> b, microchip_number |-> c]

NextChip ==
    \/ \E c \in ChipValues \cup {NoChip} : PetCreate("u1", ChipPet(c))
    \/ \E p \in PetIds, c \in ChipValues \cup {NoChip} : PetUpdate("u1", p, ChipPet(c))
    \/ \E p \in PetIds, c \in ChipValues \cup {NoChip} :
          PetPartialUpdate("u1", p, ChipPatch(c))
    \/ \E p \in PetIds : PetDestroy("u1", p)
    \/ \E p \in PetIds : PetRestore("u1", p)
    \/ \E p \in PetIds, c \in ChipValues \cup {NoChip}, b \in BOOLEAN :
          PetAdminChange(p, ChipForm(c, b))

SpecChip == Init /\ [][NextChip]_vars

\* The dates of a subscription: the requests of an admin and of a user
\* that leave status and is_active alone, the admin forms of an active
\* subscription, and the clock, over the first subscription
DatePayloads == {d \in SubApiPayloads : d.status = Absent /\ d.is_active = Absent}

DateRows == {r \in SubRows : r.status = "active" /\ r.is_active}

DateRequesters == {"u1", "admin"}

NextSubDates ==
    \/ /\ subscriptions = <<>>
       /\ \E u \in DateRequesters, d \in DatePayloads : SubscriptionCreate(u, d)
    \/ \E u \in DateRequesters, d \in DatePayloads : SubscriptionUpdate(u, 1, d)
    \/ \E u \in DateRequesters, d \in DatePayloads : SubscriptionPartialUpdate(u, 1, d)
    \/ /\ subscriptions = <<>>
       /\ \E r \in DateRows : SubscriptionAdminAdd(r)
    \/ \E r \in DateRows : SubscriptionAdminChange(1, r)
    \/ AdvanceDay

SpecSubDates == Init /\ [][NextSubDates]_vars

\* HealthRecordViewSet.get_queryset
HealthRecordViewSet_get_queryset(user) ==
    IF Role(user) = "ADMIN" THEN DOMAIN health_records
    ELSE {h \in DOMAIN health_records : pets[health_records[h].pet].owner = user}

\* AppointmentViewSet.get_queryset
AppointmentViewSet_get_queryset(user) ==
    IF Role(user) = "ADMIN" THEN DOMAIN appointments
    ELSE {a \in DOMAIN appointments : appointments[a].owner = user}

\* ListModelMixin.list of a view set: the permission check of the view,
\* then the rows of its get_queryset
ListResponse(op, cls, user, rows) ==
    /\ UNCHANGED <<stored, today, perm>>
    /\ IF ~has_permission(cls, user)
       THEN resp' = Response(op, user, DeniedStatus(user), 0, {}, "")
       ELSE resp' = Response(op, user, 200, 0, rows, "")

VaccinationList(user) ==
    ListResponse("vacc_list", VaccinationViewSet_permission_classes, user,
                 VaccinationViewSet_get_queryset(user))

HealthRecordList(user) ==
    ListResponse("record_list", HealthRecordViewSet_permission_classes, user,
                 HealthRecordViewSet_get_queryset(user))

AppointmentList(user) ==
    ListResponse("appointment_list", AppointmentViewSet_get_permissions, user,
                 AppointmentViewSet_get_queryset(user))

SubscriptionList(user) ==
    ListResponse("sub_list", UserSubscriptionViewSet_get_permissions("list"), user,
                 UserSubscriptionViewSet_get_queryset(user))

\* The lists of two owners and an admin over the records of both owners;
\* every date is today
ListOwners == {"u1", "u2"}

NextLists ==
    \/ \E u \in ListOwners :
           /\ \A p \in DOMAIN pets : pets[p].owner # u
           /\ PetCreate(u, [ValidPet EXCEPT !.owner = u])
    \/ \E u \in ListOwners, d \in PlainVaccPayloads :
           d.due_date = 0 /\ VaccinationCreate(u, d)
    \/ \E u \in ListOwners, d \in HealthPayloads :
           d.record_date = 0 /\ HealthRecordCreate(u, d)
    \/ \E u \in ListOwners, d \in AppointmentPayloads :
           d.appointment_date = 0 /\ AppointmentCreate(u, d)
    \/ /\ subscriptions = <<>>
       /\ \E r \in DateRows : r.start_date = 0 /\ SubscriptionAdminAdd(r)
    \/ \E u \in Requesters : VaccinationList(u)
    \/ \E u \in Requesters : HealthRecordList(u)
    \/ \E u \in Requesters : AppointmentList(u)
    \/ \E u \in Requesters : SubscriptionList(u)

SpecLists == Init /\ [][NextLists]_vars

\* UserSubscriptionViewSet.my_subscription: the first row of the user with
\* the stored is_active set and the stored status active, in the order of
\* Meta.ordering (latest start_date, then latest created)
SubscriptionMySubscription(user) ==
    /\ UNCHANGED <<stored, today, perm>>
    /\ LET queryset == {k \in DOMAIN subscriptions :
                           /\ subscriptions[k].user = user
                           /\ subscriptions[k].is_active
                           /\ subscriptions[k].status = "active"}
           first == CHOOSE k \in queryset :
                       \A j \in queryset :
                           \/ subscriptions[k].start_date > subscriptions[j].start_date
                           \/ /\ subscriptions[k].start_date = subscriptions[j].start_date
                              /\ k >= j
       IN
       IF ~has_permission("IsAuthenticated", user)
       THEN resp' = Response("my_subscription", user, 401, 0, {}, "")
       ELSE IF queryset = {}
       THEN resp' = Response("my_subscription", user, 404, 0, {}, "")
       ELSE resp' = Response("my_subscription", user, 200, first, {first}, "")

\* The subscriptions an admin enters and cancels, the days that pass, and
\* the users who ask for their subscription
NextMySub ==
    \/ \E r \in DateRows : SubscriptionAdminAdd(r)
    \/ \E u \in SubRequesters, k \in SubIds : SubscriptionCancel(u, k)
    \/ \E u \in SubRequesters : SubscriptionMySubscription(u)
    \/ AdvanceDay

SpecMySub == Init /\ [][NextMySub]_vars

\* The owners of pets and of their appointments: owners create a pet each,
\* book appointments, and send a full update of a pet
NextApptOwner ==
    \/ \E u \in AppointmentOwners :
           /\ \A p \in DOMAIN pets : pets[p].owner # u
           /\ PetCreate(u, [ValidPet EXCEPT !.owner = u])
    \/ \E u \in AppointmentOwners \cup {"admin"}, d \in AppointmentPayloads :
           AppointmentCreate(u, d)
    \/ \E u, w \in AppointmentOwners, p \in PetIds :
           PetUpdate(u, p, [ValidPet EXCEPT !.owner = w])

SpecApptOwner == Init /\ [][NextApptOwner]_vars

\* Roles and logins: a visitor registers, two users and an admin update
\* users, themselves, their passwords, the admin deactivates, users log in
RoleRequesters == {"u1", "n1", "admin"}

RoleTargets == {"u1", "n1"}

NextRoles ==
    \/ \E d \in RegPayloads : UserCreate(Anonymous, d)
    \/ \E u \in RoleRequesters, k \in RoleTargets, d \in UserPayloads : UserUpdate(u, k, d)
    \/ \E u \in RoleRequesters, k \in RoleTargets, d \in UserPayloads :
          UserPartialUpdate(u, k, d)
    \/ \E u \in RoleTargets, m \in {"GET", "PUT", "PATCH"}, d \in UserPayloads :
          UserMe(u, m, d)
    \/ \E u \in RoleTargets, d \in PasswordPayloads : UserChangePassword(u, d)
    \/ \E k \in RoleTargets : UserDestroy("admin", k)
    \/ \E d \in LoginPayloads : UserLogin(d)

SpecRoles == Init /\ [][NextRoles]_vars

(***************************************************************************)
(* The ownership check over every requester, class and record              *)
(***************************************************************************)
NextPerm ==
    \E cls \in OwnershipClasses, u \in Requesters, obj \in PermObjects :
        CheckObjectPermission(cls, u, obj)

SpecPerm == Init /\ [][NextPerm]_vars

(***************************************************************************)
(* Response bodies: a body is the set of its top-level keys and the value  *)
(* of its success key (Absent when the body has none)                      *)
(***************************************************************************)
\* utils/responses.py success_response: success, message and, when data is
\* not None, data
success_response(with_data) ==
    [success |-> "true",
     keys |-> {"success", "message"} \cup (IF with_data THEN {"data"} ELSE {})]

\* utils/responses.py error_response: success, message and, when given,
\* errors and error_code
error_response(with_errors, with_code) ==
    [success |-> "false",
     keys |-> {"success", "message"} \cup (IF with_errors THEN {"errors"} ELSE {})
                \cup (IF with_code THEN {"error_code"} ELSE {})]

\* A body built by a view from a dict literal or from serializer.data
RawBody(keys) == [success |-> Absent, keys |-> keys]

\* custom_exception_handler on the exceptions the pet views raise: Http404
\* from get_object (handle_http404), ValidationError from is_valid (a field
\* map, so handle_drf_exception adds errors), NotAuthenticated and
\* PermissionDenied from the permission checks (a detail, no errors)
ExceptionBody(status) ==
    IF status = 404 THEN error_response(FALSE, TRUE)
    ELSE IF status = 400 THEN error_response(TRUE, TRUE)
    ELSE error_response(FALSE, TRUE)

\* The pet requests whose body the view writes itself
PetBodyOps == {"pet_create", "pet_update", "pet_partial_update", "pet_destroy",
               "pet_restore"}

\* The body PetViewSet answers with, by request and status
PetViewSet_body(r) ==
    IF r.status \in {401, 403, 404} THEN ExceptionBody(r.status)
    ELSE IF r.status = 400
    THEN IF r.op = "pet_restore" THEN RawBody({"detail"}) ELSE ExceptionBody(400)
    ELSE IF r.op = "pet_destroy" THEN RawBody({"message"})
    ELSE RawBody({"message", "pet"})

\* One of the two envelopes of the API
Envelope(body) ==
    /\ "message" \in body.keys
    /\ \/ body.success = "true" /\ body.keys \subseteq {"success", "message", "data"}
       \/ /\ body.success = "false"
          /\ body.keys \subseteq {"success", "message", "errors", "error_code"}

(***************************************************************************)
(* Properties                                                              *)
(***************************************************************************)
OkStatus == {200, 201}

\* C1: for a requester without the ADMIN role, every pet returned by the pet
\* list endpoint and by my_pets is owned by the requester.
C1_PetListOnlyOwnPets ==
    (resp.op \in {"pet_list", "my_pets"} /\ resp.status \in OkStatus
        /\ Role(resp.user) # "ADMIN")
    => \A p \in resp.data : pets[p].owner = resp.user

\* C1 witness: a non-admin lists pets, gets one, and another user's
\* non-deleted pet exists and is left out.
C1_Witness ==
    /\ resp.op = "pet_list" /\ resp.status = 200 /\ Role(resp.user) # "ADMIN"
    /\ resp.data # {}
    /\ \E p \in Pet_objects : pets[p].owner # resp.user /\ p \notin resp.data

\* C2: a successful vaccination create, update or partial_update by a
\* requester without the ADMIN role leaves the vaccination on a pet that the
\* requester owns (a request naming another user's pet stores nothing).
C2_NoVaccinationOnForeignPet ==
    (resp.op \in {"vacc_create", "vacc_update", "vacc_partial_update"}
        /\ resp.status \in OkStatus /\ Role(resp.user) # "ADMIN")
    => pets[vaccinations[resp.pk].pet].owner = resp.user

\* C3: pet_records answers 200 only to an admin or to the owner of the pet.
C3_PetRecordsOnlyOwnerOrAdmin ==
    (resp.op = "pet_records" /\ resp.status = 200)
    => (Role(resp.user) = "ADMIN" \/ pets[resp.pk].owner = resp.user)

\* C4: no request of a requester without the ADMIN role changes the owner of
\* an existing pet.
C4_OwnerNeverChanges ==
    [][Role(resp'.user) # "ADMIN"
         => \A p \in DOMAIN pets : pets'[p].owner = pets[p].owner]_vars

\* The owning user of a record as the claim reads it: obj.owner, else
\* obj.user, else obj.pet.owner
OwningUser(obj) ==
    IF "owner" \in DOMAIN obj THEN obj.owner
    ELSE IF "user" \in DOMAIN obj THEN obj.user
    ELSE obj.pet.owner

\* C5 as stated: each of the three classes grants exactly when the requester
\* is authenticated and is an admin or the record's owning user.
C5_GrantIffAdminOrOwningUser ==
    perm.cls \in OwnershipClasses
    => (perm.result <=> (/\ is_authenticated(perm.user)
                         /\ (Role(perm.user) = "ADMIN" \/ OwningUser(perm.obj) = perm.user)))

\* The references a class consults, in its order; <<>> when the record has
\* none of them
ConsultedOwners(cls, obj) ==
    LET owner == IF "owner" \in DOMAIN obj THEN <<obj.owner>> ELSE <<>>
        user == IF "user" \in DOMAIN obj THEN <<obj.user>> ELSE <<>>
        petowner == IF "pet" \in DOMAIN obj THEN <<obj.pet.owner>> ELSE <<>>
    IN CASE cls = "IsOwnerOrAdmin" -> owner \o user
         [] cls = "IsPetOwnerOrAdmin" -> petowner \o owner
         [] cls = "IsAppointmentOwnerOrAdmin" -> owner \o petowner

\* C5 amended: each class grants exactly when the requester is authenticated
\* and is an admin or equals the first reference that class consults
\* (IsOwnerOrAdmin: owner, user; IsPetOwnerOrAdmin: pet.owner, owner;
\* IsAppointmentOwnerOrAdmin: owner, pet.owner); a record with none of the
\* class's references is denied to every non-admin.
C5_GrantIffAdminOrConsultedOwner ==
    perm.cls \in OwnershipClasses
    => (perm.result <=>
          (/\ is_authenticated(perm.user)
           /\ \/ Role(perm.user) = "ADMIN"
              \/ /\ ConsultedOwners(perm.cls, perm.obj) # <<>>
                 /\ Head(ConsultedOwners(perm.cls, perm.obj)) = perm.user))

\* C5 witness: a non-admin is granted a record through its pet's owner, and
\* a non-admin is denied a record whose references the class does not read
\* (the state shown is the denial of a subscription by IsPetOwnerOrAdmin to
\* its own user).
C5_Witness ==
    /\ perm.cls = "IsPetOwnerOrAdmin"
    /\ perm.obj.kind = "subscription"
    /\ perm.obj.user = perm.user
    /\ Role(perm.user) # "ADMIN"
    /\ ~perm.result

SubSaveOps == {"sub_create", "sub_update", "sub_partial_update", "sub_admin_add",
               "sub_admin_change"}

\* C6: after a successful save() of a subscription that is not cancelled,
\* status is active and is_active is True when start_date <= today <=
\* end_date on the day of the save (updated_at), else status is expired and
\* is_active is False.
C6_SaveDerivesStatus ==
    (resp.op \in SubSaveOps /\ resp.status \in OkStatus
        /\ subscriptions[resp.pk].status # "cancelled")
    => LET row == subscriptions[resp.pk] IN
       IF row.start_date <= row.updated_at /\ row.updated_at <= row.end_date
       THEN row.status = "active" /\ row.is_active
       ELSE row.status = "expired" /\ ~row.is_active

\* C6 witness: a save after end_date has passed stored an expired
\* subscription that was handed in as active.
C6_Witness ==
    /\ resp.op \in SubSaveOps /\ resp.status \in OkStatus
    /\ resp.given = "active"
    /\ subscriptions[resp.pk].updated_at > subscriptions[resp.pk].end_date
    /\ subscriptions[resp.pk].status = "expired"
    /\ ~subscriptions[resp.pk].is_active

\* C7: once a subscription is cancelled, no step changes its status, makes
\* it active again or clears cancelled_at.
C7_CancellationIsOneWay ==
    [][\A k \in DOMAIN subscriptions :
          subscriptions[k].status = "cancelled"
          => /\ subscriptions'[k].status = "cancelled"
             /\ ~subscriptions'[k].is_active
             /\ subscriptions'[k].cancelled_at # NoDate]_vars

\* C8 as stated: at every moment a stored vaccination with due_date < today
\* and no administered_date is overdue, and one with an administered_date is
\* completed.
C8_OverdueOnceDuePasses ==
    \A v \in DOMAIN vaccinations :
        LET row == vaccinations[v] IN
        /\ (row.due_date < today /\ row.administered_date = NoDate)
              => row.status = "overdue"
        /\ row.administered_date # NoDate => row.status = "completed"

\* C8 amended: the status is derived when the vaccination is saved, not when
\* the day changes: a stored vaccination with no administered_date whose
\* due_date was already past on the day of its last save (updated_at) is
\* overdue, and one with an administered_date is completed.
C8_OverdueAsOfLastSave ==
    \A v \in DOMAIN vaccinations :
        LET row == vaccinations[v] IN
        /\ (row.due_date < row.updated_at /\ row.administered_date = NoDate)
              => row.status = "overdue"
        /\ row.administered_date # NoDate => row.status = "completed"

\* C8 witness: a vaccination saved after its due date, overdue, and the day
\* has advanced since.
C8_Witness ==
    \E v \in DOMAIN vaccinations :
        /\ vaccinations[v].administered_date = NoDate
        /\ vaccinations[v].due_date < vaccinations[v].updated_at
        /\ vaccinations[v].updated_at < today
        /\ vaccinations[v].status = "overdue"

\* C9: a vaccination created with due_date before the day of the save and no
\* administered_date is stored overdue, whatever status it was given.
C9_PastDueCreatedOverdue ==
    (resp.op \in {"vacc_create", "vacc_admin_add"} /\ resp.status \in OkStatus
        /\ vaccinations[resp.pk].due_date < vaccinations[resp.pk].updated_at
        /\ vaccinations[resp.pk].administered_date = NoDate)
    => vaccinations[resp.pk].status = "overdue"

\* C9 witness: a vaccination handed to save() as scheduled, past due, no
\* administered_date, stored overdue.
C9_Witness ==
    /\ resp.op = "vacc_admin_add" /\ resp.status \in OkStatus
    /\ resp.given = "scheduled"
    /\ vaccinations[resp.pk].due_date < vaccinations[resp.pk].updated_at
    /\ vaccinations[resp.pk].administered_date = NoDate
    /\ vaccinations[resp.pk].status = "overdue"

VaccSaveOps == {"vacc_create", "vacc_update", "vacc_partial_update", "vacc_admin_add",
                "vacc_admin_change"}

\* C10: a successful save() of a vaccination with an administered_date stores
\* status completed, whatever status it had when save() began.
C10_AdministeredIsCompleted ==
    (resp.op \in VaccSaveOps /\ resp.status \in OkStatus
        /\ vaccinations[resp.pk].administered_date # NoDate)
    => vaccinations[resp.pk].status = "completed"

\* C10 witness: an overdue vaccination saved with an administered_date is
\* stored completed.
C10_Witness ==
    /\ resp.op \in VaccSaveOps /\ resp.status \in OkStatus
    /\ resp.given = "overdue"
    /\ vaccinations[resp.pk].administered_date # NoDate
    /\ vaccinations[resp.pk].status = "completed"

\* C11: a successful save() of a vaccination with no administered_date whose
\* due_date is the day of the save or later stores pending when it was handed
\* over as overdue, and leaves pending and scheduled as they were.
C11_NotDueRevertsOverdue ==
    (resp.op \in VaccSaveOps /\ resp.status \in OkStatus
        /\ vaccinations[resp.pk].administered_date = NoDate
        /\ vaccinations[resp.pk].due_date >= vaccinations[resp.pk].updated_at)
    => /\ resp.given = "overdue" => vaccinations[resp.pk].status = "pending"
       /\ resp.given \in {"pending", "scheduled"}
             => vaccinations[resp.pk].status = resp.given

\* C11 witness: an overdue vaccination whose due_date was moved to the day of
\* the save or later is stored pending.
C11_Witness ==
    /\ resp.op \in {"vacc_update", "vacc_partial_update", "vacc_admin_change"}
    /\ resp.status \in OkStatus
    /\ resp.given = "overdue"
    /\ vaccinations[resp.pk].administered_date = NoDate
    /\ vaccinations[resp.pk].due_date >= vaccinations[resp.pk].updated_at
    /\ vaccinations[resp.pk].status = "pending"

\* C12: Pet.delete() (through PetViewSet.destroy or the admin delete) keeps
\* the row, with is_deleted set and deleted_at stamped, out of Pet.objects and
\* of every requester's queryset and inside all_objects / all_with_deleted and
\* deleted_only; and while a pet is soft-deleted, retrieve, update,
\* partial_update and destroy on it change nothing and answer 404 (401 to an
\* anonymous requester), and list and my_pets do not return it.
C12_SoftDeleteHidesPet ==
    [][/\ (resp'.user \in Requesters /\ resp'.pk \in PetIds) =>
            LET u == resp'.user
                p == resp'.pk
            IN
            /\ ((PetDestroy(u, p) /\ resp'.status = 200) \/ PetAdminDelete(p))
                  => /\ p \in DOMAIN pets'
                     /\ pets'[p].is_deleted /\ pets'[p].deleted_at # NoDate
                     /\ pets'[p] = [pets[p] EXCEPT !.is_deleted = TRUE,
                                                   !.deleted_at = pets'[p].deleted_at]
                     /\ p \notin Pet_objects'
                     /\ \A w \in Requesters : p \notin PetViewSet_get_queryset(w)'
                     /\ p \in Pet_all_objects' /\ p \in Pet_deleted_only'
            /\ (/\ p \in DOMAIN pets /\ pets[p].is_deleted
                /\ \/ PetRetrieve(u, p) \/ PetDestroy(u, p)
                   \/ \E d \in PetPayloads : PetUpdate(u, p, d)
                   \/ \E d \in PetPayloads : PetPartialUpdate(u, p, d))
                  => resp'.status \in {401, 404} /\ pets' = pets
       /\ \A u \in Requesters :
            (PetList(u) \/ PetMyPets(u)) => resp'.data \cap Pet_deleted_only = {}
      ]_vars

\* C12 witness: a pet soft-deleted by Pet.delete() is still stored, and its
\* owner's retrieve of it has just answered 404.
C12_Witness ==
    /\ resp.op = "pet_retrieve" /\ resp.status = 404
    /\ resp.pk \in Pet_deleted_only
    /\ pets[resp.pk].deleted_at # NoDate
    /\ pets[resp.pk].owner = resp.user

\* C13: in every state a pet's is_deleted flag is set exactly when its
\* deleted_at timestamp is.
C13_DeletedIffTimestamp ==
    \A p \in DOMAIN pets : pets[p].is_deleted <=> pets[p].deleted_at # NoDate

\* C14 as stated: a destroy request naming the requester's own account is
\* answered 400 and leaves the account active, whoever the requester is.
C14_SelfDeleteAnswers400 ==
    (resp.op = "user_destroy" /\ is_authenticated(resp.user) /\ resp.target = resp.user)
    => resp.status = 400 /\ users[resp.user].is_active

\* C14 amended: a destroy request naming the requester's own account never
\* succeeds and leaves every account as it was: an admin is answered 400, a
\* requester without the ADMIN role 403 (destroy is admin-only); when an admin
\* deletes another existing user, that user's row is kept with is_active False
\* and nothing else changes.
C14_SelfDeleteRejectedOthersDeactivated ==
    [][resp'.op = "user_destroy" =>
         LET u == resp'.user
             k == resp'.target
         IN UserDestroy(u, k) =>
              /\ (is_authenticated(u) /\ k = u)
                    => /\ resp'.status = IF Role(u) = "ADMIN" THEN 400 ELSE 403
                       /\ users' = users
                       /\ users'[u].is_active
              /\ (is_authenticated(u) /\ Role(u) = "ADMIN" /\ k # u /\ k \in DOMAIN users)
                    => /\ resp'.status = 200
                       /\ DOMAIN users' = DOMAIN users
                       /\ users'[k] = [users[k] EXCEPT !.is_active = FALSE]
                       /\ \A w \in DOMAIN users \ {k} : users'[w] = users[w]
      ]_vars

\* C14 witness: an admin who has deactivated another user asks to delete
\* their own account and is answered 400, still active.
C14_Witness ==
    /\ resp.op = "user_destroy" /\ resp.status = 400
    /\ resp.target = resp.user
    /\ users[resp.user].is_active
    /\ \E k \in DOMAIN users : ~users[k].is_active

\* C15: a registration whose payload asks for role ADMIN is answered 400 and
\* creates no user; a registration that succeeds stores role USER, and every
\* account that came from registration has role USER.
C15_RegistrationNeverAdmin ==
    [][/\ resp'.op = "user_create" =>
            \A d \in RegPayloads :
                UserCreate(resp'.user, d) =>
                    /\ d.role = "ADMIN" => resp'.status = 400 /\ users' = users
                    /\ resp'.status = 201 => /\ d.email \in DOMAIN users'
                                             /\ users'[d.email].role = "USER"
       /\ \A u \in DOMAIN users' \ Users : users'[u].role = "USER"
      ]_vars

\* C15 witness: a registration with a free email, matching passwords and
\* role ADMIN has just been answered 400, and no account was made for it.
C15_Witness ==
    /\ resp.op = "user_create" /\ resp.status = 400
    /\ resp.given.role = "ADMIN"
    /\ resp.given.password_confirm = "same"
    /\ resp.given.email \notin DOMAIN users

\* C16: a request that is answered with an error status leaves every table
\* as it was before the request
C16_ErrorLeavesStoredDataUnchanged ==
    [][resp'.status \notin OkStatus => UNCHANGED stored]_vars

\* C17: the body of every response of the pet endpoints is one of the two
\* envelopes: success true with a message (and data), or success false
\* with a message (and errors, error_code)
C17_EveryBodyIsEnveloped ==
    resp.op \in PetBodyOps => Envelope(PetViewSet_body(resp))

\* The exception classes by the kind of error they report
NotFoundKinds == {"Http404", "ObjectDoesNotExist", "NotFound", "NotFoundException"}

PermissionKinds == {"PermissionDenied", "DRFPermissionDenied", "PermissionDeniedException"}

ValidationKinds == {"DjangoValidationError", "DRFValidationError", "ValidationException"}

\* Duplicate violations are answered DUPLICATE_ENTRY and foreign-key
\* violations with another code, in a 400 or 409 response
IntegrityClassified(exc, r) ==
    /\ r.status \in {400, 409}
    /\ exc.violation = "unique" => r.error_code = "DUPLICATE_ENTRY"
    /\ exc.violation = "foreign_key" => r.error_code # "DUPLICATE_ENTRY"

C19_FreePlanPriceIsZero ==
    \A p \in DOMAIN plans : plans[p].plan_type = "free" => plans[p].price = 0

\* C20: every appointment a step creates has an appointment_date that is
\* not earlier than the time of the step, and a creation request (API or
\* admin form) that names a past appointment_date is refused and leaves the
\* appointments as they were
C20_NoAppointmentCreatedInThePast ==
    [][/\ \A a \in DOMAIN appointments' \ DOMAIN appointments :
              appointments'[a].appointment_date >= today
       /\ /\ resp'.op \in {"appointment_create", "appointment_admin_add"}
          /\ resp'.now = today
          /\ resp'.given.appointment_date # AbsentDate
          /\ resp'.given.appointment_date < today
          /\ \/ AppointmentCreate(resp'.user, resp'.given)
             \/ AppointmentAdminAdd(resp'.given)
          => /\ resp'.status \notin {201, 302}
             /\ UNCHANGED appointments]_vars

\* C20 witness: the owner of a pet asked for an appointment on a day before
\* the day of the request and was answered 400
C20_Witness ==
    /\ resp.op = "appointment_create"
    /\ resp.status = 400
    /\ resp.given.pet \in Pet_objects
    /\ pets[resp.given.pet].owner = resp.user
    /\ resp.given.appointment_date # AbsentDate
    /\ resp.given.appointment_date < resp.now

\* The payload names an end_date that is not after the start_date it names
\* or, when it names none, the start_date of the instance
EndNotAfterStart(d, instance) ==
    /\ d.end_date # AbsentDate
    /\ LET start_date == DateOr(d.start_date,
                           IF instance # NoInstance THEN instance.start_date ELSE NoDate)
       IN start_date # NoDate /\ d.end_date <= start_date

\* The requests that write a subscription
SubWriteOps ==
    {"sub_create", "sub_update", "sub_partial_update", "sub_admin_add", "sub_admin_change"}

\* C21: every stored subscription has start_date < end_date; the model's
\* clean refuses every row, and the serializer every payload, whose end_date
\* is not after the start_date; and a refused write leaves the subscriptions
\* as they were
C21_EndDateAfterStartDate ==
    /\ [](/\ \A k \in DOMAIN subscriptions :
                subscriptions[k].start_date < subscriptions[k].end_date
          /\ \A r \in DateRows : r.end_date <= r.start_date => ~UserSubscription_clean(r)
          /\ \A d \in DatePayloads :
             \A instance \in {NoInstance} \cup {subscriptions[k] : k \in DOMAIN subscriptions} :
             \A partial \in BOOLEAN :
                 EndNotAfterStart(d, instance)
                 => UserSubscriptionSerializer_is_valid(d, instance, partial) \notin OkStatus)
    /\ [][/\ resp' # resp
          /\ resp'.op \in SubWriteOps
          /\ resp'.status \notin OkStatus
          => UNCHANGED subscriptions]_vars

\* C21 witness: an update through the API stored a subscription, whose
\* end_date is after its start_date
C21_Witness ==
    /\ resp.op \in {"sub_update", "sub_partial_update"}
    /\ resp.status \in OkStatus
    /\ subscriptions[resp.pk].start_date < subscriptions[resp.pk].end_date

\* The requests that write a pet
PetWriteOps ==
    {"pet_create", "pet_update", "pet_partial_update", "pet_destroy", "pet_restore",
     "pet_admin_change"}

\* C22: no two pets that are not deleted have the same microchip_number
\* after trimming and upper-casing; a write that names the number of
\* another pet that is not deleted is refused; and a refused write leaves
\* the pets as they were
C22_UniqueMicrochipNumbers ==
    /\ [](\A p, q \in Pet_objects :
             p # q /\ pets[p].microchip_number # NoChip
             => str_upper(str_strip(pets[p].microchip_number))
                # str_upper(str_strip(pets[q].microchip_number)))
    /\ [][/\ resp' # resp
          /\ resp'.op \in PetWriteOps
          => /\ resp'.status \notin OkStatus => UNCHANGED pets
             /\ (/\ resp'.given \notin {Absent, NoChip, ""}
                 /\ \E p \in Pet_objects \ {resp'.pk} :
                       pets[p].microchip_number = str_upper(str_strip(resp'.given)))
                => resp'.status \notin OkStatus]_vars

\* C22 witness: a create that names, in lower case, the microchip_number
\* of a pet that is not deleted was refused
C22_Witness ==
    /\ resp.op = "pet_create"
    /\ resp.status = 400
    /\ resp.given = "a1"
    /\ \E p \in Pet_objects : pets[p].microchip_number = "A1"

\* C23: a list of vaccinations, health records, appointments or
\* subscriptions answered to a requester who is no admin holds only rows of
\* pets the requester owns, appointments the requester owns, subscriptions
\* of the requester
C23_ListsHoldOnlyOwnRecords ==
    [][/\ resp' # resp
       /\ resp'.status \in OkStatus
       /\ Role(resp'.user) # "ADMIN"
       => /\ resp'.op = "vacc_list"
             => \A v \in resp'.data : pets'[vaccinations'[v].pet].owner = resp'.user
          /\ resp'.op = "record_list"
             => \A h \in resp'.data : pets'[health_records'[h].pet].owner = resp'.user
          /\ resp'.op = "appointment_list"
             => \A a \in resp'.data : appointments'[a].owner = resp'.user
          /\ resp'.op = "sub_list"
             => \A k \in resp'.data : subscriptions'[k].user = resp'.user]_vars

\* C23 witness: a user listed the vaccinations while the only vaccination
\* stored is of another owner's pet, and the list came back empty
C23_Witness ==
    /\ resp.op = "vacc_list"
    /\ resp.status = 200
    /\ Role(resp.user) # "ADMIN"
    /\ resp.data = {}
    /\ \E v \in DOMAIN vaccinations : pets[vaccinations[v].pet].owner # resp.user

\* C24: the subscription that my_subscription answers with is currently
\* active on the day of the request: not cancelled, and today within
\* start_date..end_date
C24_MySubscriptionIsCurrentlyActive ==
    [][/\ resp'.op = "my_subscription"
       /\ resp'.status = 200
       /\ UNCHANGED <<stored, today>>
       => UserSubscription_is_currently_active(subscriptions[resp'.pk])]_vars

\* C25: the owner of every stored appointment is the owner of its pet
C25_AppointmentOwnerIsPetOwner ==
    \A a \in DOMAIN appointments :
        appointments[a].owner = pets[appointments[a].pet].owner

\* C26: a create or a full update by an admin that names user, plan and a
\* start_date not in the future and omits end_date stores the subscription
\* with end_date = start_date + plan.duration_days, and so does a partial
\* update that names such a start_date and omits end_date
C26_OmittedEndDateIsStartPlusDuration ==
    [][\A d \in DatePayloads :
          /\ d.end_date = AbsentDate
          /\ d.start_date # AbsentDate
          /\ d.start_date <= today
          /\ \/ d.user # Absent /\ SubscriptionCreate("admin", d)
             \/ d.user # Absent /\ resp'.pk \in DOMAIN subscriptions
                                /\ SubscriptionUpdate("admin", resp'.pk, d)
             \/ resp'.pk \in DOMAIN subscriptions
                /\ SubscriptionPartialUpdate("admin", resp'.pk, d)
          => /\ resp'.status \in OkStatus
             /\ subscriptions'[resp'.pk].end_date = d.start_date + duration_days("premium")]_vars

\* C27: the cancel endpoint cancels for an admin only, every other
\* requester is denied and changes nothing; cancelling a subscription that
\* is cancelled already answers 400 and leaves every field of every
\* subscription, cancelled_at included, as it was
C27_CancelIsAdminOnlyAndOnce ==
    [][/\ resp'.op = "sub_cancel"
       /\ today' = today
       => /\ ~(is_authenticated(resp'.user) /\ Role(resp'.user) = "ADMIN")
             => resp'.status \in {401, 403} /\ UNCHANGED subscriptions
          /\ resp'.status \in OkStatus
             => /\ Role(resp'.user) = "ADMIN"
                /\ subscriptions'[resp'.pk].status = "cancelled"
          /\ (/\ is_authenticated(resp'.user) /\ Role(resp'.user) = "ADMIN"
              /\ resp'.pk \in DOMAIN subscriptions
              /\ subscriptions[resp'.pk].status = "cancelled")
             => resp'.status = 400 /\ UNCHANGED subscriptions]_vars

\* C27 witness: an admin's cancel of a subscription cancelled on an earlier
\* day was refused, and cancelled_at still shows the earlier day
C27_Witness ==
    /\ resp.op = "sub_cancel"
    /\ resp.status = 400
    /\ Role(resp.user) = "ADMIN"
    /\ subscriptions[resp.pk].status = "cancelled"
    /\ subscriptions[resp.pk].cancelled_at # NoDate
    /\ subscriptions[resp.pk].cancelled_at < today

\* The requests of C28
RoleOps == {"user_create", "login", "me", "user_update", "user_partial_update",
            "change_password"}

\* C28: a registration, login, me, update, partial update or change of
\* password leaves the role of every user as it was, a user it creates has
\* role USER, and an update that a requester without role ADMIN sends for
\* another user is denied and changes no user
C28_RoleNeverChanges ==
    [][resp'.op \in RoleOps
       => /\ \A u \in DOMAIN users : users'[u].role = users[u].role
          /\ \A u \in DOMAIN users' \ DOMAIN users : users'[u].role = "USER"
          /\ (/\ resp'.op \in {"user_update", "user_partial_update"}
              /\ Role(resp'.user) # "ADMIN"
              /\ resp'.target # resp'.user)
             => resp'.status \notin OkStatus /\ UNCHANGED users]_vars

\* C28 witness: a user's update of themself that names role ADMIN was
\* accepted, and the user has role USER
C28_Witness ==
    /\ resp.op = "user_update"
    /\ resp.status = 200
    /\ resp.target = resp.user
    /\ resp.given.role = "ADMIN"
    /\ users[resp.user].role = "USER"

\* C29: a login that names a user who is not active is refused and issues
\* no tokens
C29_NoLoginWhileDeactivated ==
    [][/\ resp'.op = "login"
       /\ resp'.target \in DOMAIN users
       /\ ~users[resp'.target].is_active
       => resp'.status = 400 /\ ~resp'.tokens]_vars

\* C29 witness: a login with the password of a user whom an admin
\* deactivated was refused
C29_Witness ==
    /\ resp.op = "login"
    /\ resp.status = 400
    /\ ~resp.tokens
    /\ resp.target \in DOMAIN users
    /\ ~users[resp.target].is_active
    /\ resp.given.password = users[resp.target].password

\* The payloads of C30: a pet, dates, no status
DuePayloads == {d \in OnePetVaccPayloads : d.status = Absent}

\* C30: the serializer refuses a create whose due_date is before today and
\* does not hold a past due_date against an update; it refuses, on create
\* and on update, an administered_date after today or before the due_date
\* (the payload's, else the instance's); and a refused request stores
\* nothing
C30_PastDueDateOnCreateOnly ==
    /\ [](\A d \in DuePayloads :
          \A instance \in {NoInstance} \cup {vaccinations[v] : v \in DOMAIN vaccinations} :
          \A partial \in BOOLEAN :
             LET valid == VaccinationSerializer_is_valid(d, instance, partial)
                 due_date == DateOr(d.due_date,
                                    IF instance = NoInstance THEN NoDate
                                    ELSE instance.due_date)
             IN /\ (instance = NoInstance /\ d.due_date \in Days /\ d.due_date < today)
                   => ~valid
                /\ (instance # NoInstance /\ d.due_date \in Days /\ d.due_date < today)
                   => VaccinationSerializer_validate_due_date(d.due_date, instance)
                /\ (d.administered_date \in Days /\ d.administered_date > today)
                   => ~valid
                /\ (/\ d.administered_date \in Days /\ due_date # NoDate
                    /\ d.administered_date < due_date)
                   => ~valid)
    /\ [][/\ resp'.op \in {"vacc_create", "vacc_update", "vacc_partial_update"}
          /\ resp'.status \notin OkStatus
          => UNCHANGED vaccinations]_vars

\* C30 witness: an update made today was accepted and stored a due_date
\* that is before today
C30_Witness ==
    /\ resp.op = "vacc_update"
    /\ resp.status = 200
    /\ vaccinations[resp.pk].updated_at = today
    /\ vaccinations[resp.pk].due_date < today

====
